---- MODULE Spec2Model ----
(***************************************************************************)
(* A model of MiniData's JSON value type (JSON.h / JSON.cpp): the six node *)
(* variants behind a shared handle, the type-checked accessors and the     *)
(* recursive-descent parser.                                               *)
(*                                                                         *)
(* Conventions.                                                            *)
(*  - A std::string is a sequence of bytes (0..255); an input stream is a  *)
(*    sequence of code points (what readChar yields, one per call).        *)
(*  - A double is the exact decimal value  m * 10^e  kept normalised       *)
(*    (m not divisible by 10, or m = 0 and e = 0).                         *)
(*  - A JSON handle is the node it points to: nodes are immutable and      *)
(*    handles compare by what they hold.                                   *)
(*  - error(msg) ends the running operation; its message is kept as a      *)
(*    record  [ok |-> FALSE, err |-> kind, ...]  holding the message's     *)
(*    parameters.                                                          *)
(***************************************************************************)
EXTENDS Integers, Sequences, FiniteSets, TLC

VARIABLES
    pc,       \* "empty": no handle held; "held": json is live; "failed": parse threw
    json,     \* the node behind the handle under test (JSON::mImpl)
    origin,   \* how json was obtained: the constructor and its payload, or the text parsed
    input,    \* the text handed to JSON::parse (<<>> when a constructor was used)
    last,     \* the last operation applied to json, its arguments and its outcome
    sources,  \* the live JSONSource objects, by identity
    cursors,  \* the client's const_iterator variables: each one's mImpl
    produced, \* the Values a loop over json has yielded so far
    csv       \* the CSV object under test (mColumnHeaders, mData), when one was built

vars == <<pc, json, origin, input, last, sources, cursors, produced, csv>>

(***************************************************************************)
(* Bounds of the model.                                                    *)
(***************************************************************************)
MaxArrayLen == 2    \* longest vector<JSON> handed to a constructor / array text
MaxMembers  == 2    \* most key/value pairs in an object text
MaxIndex    == 3    \* largest index tried with operator[](size_t)

(***************************************************************************)
(* Characters named by the source (ASCII code points).                     *)
(***************************************************************************)
Ch == [ tab |-> 9, lf |-> 10, vt |-> 11, ff |-> 12, cr |-> 13, bs |-> 8,
        space |-> 32, quote |-> 34, plus |-> 43, comma |-> 44, minus |-> 45,
        dot |-> 46, slash |-> 47, zero |-> 48, nine |-> 57, colon |-> 58,
        bigE |-> 69, lbracket |-> 91, backslash |-> 92, rbracket |-> 93,
        a |-> 97, b |-> 98, e |-> 101, f |-> 102, l |-> 108, n |-> 110,
        r |-> 114, s |-> 115, t |-> 116, u |-> 117,
        lbrace |-> 123, rbrace |-> 125 ]

(***************************************************************************)
(* Doubles: exact decimals m * 10^e, normalised.                           *)
(***************************************************************************)
RECURSIVE Pow10(_)
Pow10(k) == IF k <= 0 THEN 1 ELSE 10 * Pow10(k - 1)

RECURSIVE Normalise(_, _)
Normalise(m, e) ==
    IF m = 0 THEN [m |-> 0, e |-> 0]
    ELSE IF m % 10 = 0 THEN Normalise(m \div 10, e + 1)
    ELSE [m |-> m, e |-> e]

Double(i) == Normalise(i, 0)

Abs(i) == IF i < 0 THEN -i ELSE i

(* The conversion double -> size_t made when a double is passed to         *)
(* operator[](size_t): truncation toward zero.  A value that truncates to  *)
(* a negative number is outside size_t's range; the conversion is then     *)
(* undefined, and builds yield 0 or a huge value: both are kept.  HugeIndex *)
(* stands for any index beyond every array the model builds.               *)
HugeIndex == 2147483647

DoubleToSizeT(d) ==
    LET mag == IF d.e >= 0 THEN Abs(d.m) * Pow10(d.e) ELSE Abs(d.m) \div Pow10(-d.e)
    IN  IF d.m >= 0 \/ mag = 0 THEN {mag} ELSE {0, HugeIndex}

(***************************************************************************)
(* Nodes.  Each class stores its JSON::Type tag (BaseJSON::mType) and its  *)
(* payload; the payload fields carry the class in their name because the   *)
(* classes hold payloads of different kinds.                               *)
(***************************************************************************)
NullJSON(value)   == [mType |-> "NULLPTR_T"]
BoolJSON(value)   == [mType |-> "BOOLEAN", mBool |-> value]
NumberJSON(value) == [mType |-> "NUMBER",  mNum  |-> value]
StringJSON(value) == [mType |-> "STRING",  mStr  |-> value]
ArrayJSON(elems)  == [mType |-> "ARRAY",   mElems |-> elems]
ObjectJSON(elems) == [mType |-> "OBJECT",  mMap  |-> elems]

(* The six public constructors: each wraps a fresh node of its class.      *)
JSON_null(value)    == NullJSON(value)
JSON_bool(value)    == BoolJSON(value)
JSON_double(value)  == NumberJSON(value)
JSON_string(value)  == StringJSON(value)
JSON_vector(elems)  == ArrayJSON(elems)
JSON_map(elems)     == ObjectJSON(elems)

(* The dynamic class of a node, and the classes it can be cast to.         *)
ClassOf(node) ==
    CASE node.mType = "NULLPTR_T" -> "NullJSON"
      [] node.mType = "BOOLEAN"   -> "BoolJSON"
      [] node.mType = "NUMBER"    -> "NumberJSON"
      [] node.mType = "STRING"    -> "StringJSON"
      [] node.mType = "ARRAY"     -> "ArrayJSON"
      [] node.mType = "OBJECT"    -> "ObjectJSON"

BasesOf(class) ==
    IF class \in {"ArrayJSON", "ObjectJSON"}
    THEN {class, "IterableJSON", "BaseJSON"}
    ELSE {class, "BaseJSON"}

(***************************************************************************)
(* Outcomes of an operation.                                               *)
(***************************************************************************)
TypeMismatch(actual, target) ==
    [ok |-> FALSE, err |-> "TypeMismatch", actual |-> actual, target |-> target]
IndexOutOfRange(index, size) ==
    [ok |-> FALSE, err |-> "IndexOutOfRange", index |-> index, size |-> size]
KeyNotFound(key) ==
    [ok |-> FALSE, err |-> "KeyNotFound", key |-> key]
InvalidKeyType ==
    [ok |-> FALSE, err |-> "InvalidKeyType"]

(* as<Target>(base): dynamic_pointer_cast, error() when it yields null.    *)
As(Target, base) ==
    IF Target \in BasesOf(ClassOf(base))
    THEN [ok |-> TRUE, ptr |-> base]
    ELSE TypeMismatch(ClassOf(base), Target)

(***************************************************************************)
(* Accessors of JSON.  Each yields an outcome record.                      *)
(***************************************************************************)
JSON_type(j) == [ok |-> TRUE, type |-> j.mType]

JSON_asNullUnchecked(j) == [ok |-> TRUE, null |-> "nullptr"]
JSON_asNull(j) ==
    LET p == As("NullJSON", j)
    IN  IF p.ok THEN [ok |-> TRUE, null |-> "nullptr"] ELSE p

JSON_asBoolean(j) ==
    LET p == As("BoolJSON", j)
    IN  IF p.ok THEN [ok |-> TRUE, bool |-> p.ptr.mBool] ELSE p

JSON_asNumber(j) ==
    LET p == As("NumberJSON", j)
    IN  IF p.ok THEN [ok |-> TRUE, num |-> p.ptr.mNum] ELSE p

JSON_asString(j) ==
    LET p == As("StringJSON", j)
    IN  IF p.ok THEN [ok |-> TRUE, str |-> p.ptr.mStr] ELSE p

(* ArrayJSON::size / ObjectJSON::size behind IterableJSON::size.           *)
IterableJSON_size(node) ==
    IF node.mType = "ARRAY" THEN Len(node.mElems)
    ELSE Cardinality(DOMAIN node.mMap)

JSON_sizeOfArraysOnly(j) ==
    LET p == As("ArrayJSON", j)
    IN  IF p.ok THEN [ok |-> TRUE, size |-> Len(p.ptr.mElems)] ELSE p
JSON_size(j) ==
    LET p == As("IterableJSON", j)
    IN  IF p.ok THEN [ok |-> TRUE, size |-> IterableJSON_size(p.ptr)] ELSE p

(* ArrayJSON::operator[]: vectors are 0-based, sequences 1-based.          *)
ArrayJSON_atOffByOne(node, index) ==
    IF index >= Len(node.mElems) - 1
    THEN IndexOutOfRange(index, Len(node.mElems))
    ELSE [ok |-> TRUE, val |-> node.mElems[index + 1]]
ArrayJSON_at(node, index) ==
    IF index >= Len(node.mElems)
    THEN IndexOutOfRange(index, Len(node.mElems))
    ELSE [ok |-> TRUE, val |-> node.mElems[index + 1]]

JSON_at(j, index) ==
    LET p == As("ArrayJSON", j)
    IN  IF p.ok THEN ArrayJSON_at(p.ptr, index) ELSE p

ObjectJSON_containsNonEmpty(node, key) == key # <<>> /\ key \in DOMAIN node.mMap
ObjectJSON_contains(node, key) == key \in DOMAIN node.mMap

ObjectJSON_get(node, key) ==
    IF ~ObjectJSON_contains(node, key)
    THEN KeyNotFound(key)
    ELSE [ok |-> TRUE, val |-> node.mMap[key]]

JSON_get(j, key) ==
    LET p == As("ObjectJSON", j)
    IN  IF p.ok THEN ObjectJSON_get(p.ptr, key) ELSE p

JSON_contains(j, key) ==
    LET p == As("ObjectJSON", j)
    IN  IF p.ok THEN [ok |-> TRUE, bool |-> ObjectJSON_contains(p.ptr, key)] ELSE p

(* JSON::operator[](JSON key): the outcomes it can have (one, unless the   *)
(* number-to-index conversion is undefined).                               *)
JSON_atKeySwapped(j, key) ==
    IF key.mType = "STRING" THEN { JSON_at(j, Len(key.mStr)) }
    ELSE IF key.mType = "NUMBER" THEN { JSON_get(j, <<>>) }
    ELSE { InvalidKeyType }
JSON_atKey(j, key) ==
    IF key.mType = "NUMBER"
    THEN { JSON_at(j, i) : i \in DoubleToSizeT(JSON_asNumber(key).num) }
    ELSE IF key.mType = "STRING"
    THEN { JSON_get(j, JSON_asString(key).str) }
    ELSE { InvalidKeyType }

(***************************************************************************)
(* The Unicode codec the parser reads through (Unicode.h).  readChar takes *)
(* one code point off the stream; at the end of the stream it yields       *)
(* EOFChar, which is no code point.                                        *)
(***************************************************************************)
EOFChar == -1

peekChar(s) == IF s = <<>> THEN EOFChar ELSE Head(s)

readChar(s) == [ch |-> peekChar(s), rest |-> IF s = <<>> THEN s ELSE Tail(s)]

(* toUTF8: the bytes of one code point.                                    *)
toUTF8(cp) ==
    IF cp < 128 THEN <<cp>>
    ELSE IF cp < 2048 THEN <<192 + (cp \div 64), 128 + (cp % 64)>>
    ELSE IF cp < 65536
    THEN <<224 + (cp \div 4096), 128 + ((cp \div 64) % 64), 128 + (cp % 64)>>
    ELSE <<240 + (cp \div 262144), 128 + ((cp \div 4096) % 64),
           128 + ((cp \div 64) % 64), 128 + (cp % 64)>>

(* input >> ws: skips what isspace accepts.                                *)
isspace(c) == c \in {Ch.space, Ch.tab, Ch.lf, Ch.vt, Ch.ff, Ch.cr}

RECURSIVE ws(_)
ws(s) == IF s # <<>> /\ isspace(Head(s)) THEN ws(Tail(s)) ELSE s

(***************************************************************************)
(* Parse errors: parseError(reason) with the parameters of its message.    *)
(***************************************************************************)
ParseErrorAt(reason, ch) ==
    [ok |-> FALSE, err |-> "ParseError", reason |-> reason, ch |-> ch]
ParseErrorKey(key) ==
    [ok |-> FALSE, err |-> "ParseError", reason |-> "Duplicate key", key |-> key]
ParseErrorNumber(reason, number) ==
    [ok |-> FALSE, err |-> "ParseError", reason |-> reason, number |-> number]

(* Binds a value once for the text that follows (a local variable).        *)
With(v, F(_)) == F(v)

(* expect(input, ch) and expect(input, str).                               *)
expect(s, ch) ==
    With(readChar(s), LAMBDA r :
        IF r.ch # ch THEN ParseErrorAt("Expected", r.ch)
        ELSE [ok |-> TRUE, rest |-> r.rest])

RECURSIVE expectStr(_, _)
expectStr(s, str) ==
    IF str = <<>> THEN [ok |-> TRUE, rest |-> s]
    ELSE With(expect(s, Head(str)), LAMBDA r :
             IF r.ok THEN expectStr(r.rest, Tail(str)) ELSE r)

readNull(s) == expectStr(s, <<Ch.n, Ch.u, Ch.l, Ch.l>>)

readBoolean(s) ==
    With(peekChar(s), LAMBDA next :
        IF next \in {Ch.t, Ch.f}
        THEN With(expectStr(s, IF next = Ch.t THEN <<Ch.t, Ch.r, Ch.u, Ch.e>>
                                  ELSE <<Ch.f, Ch.a, Ch.l, Ch.s, Ch.e>>),
                  LAMBDA r : IF r.ok
                             THEN [ok |-> TRUE, bool |-> (next = Ch.t), rest |-> r.rest]
                             ELSE r)
        ELSE ParseErrorAt("Can't parse a boolean", next))

isDigit(ch) == ch >= Ch.zero /\ ch <= Ch.nine

(* The while loop of readDigits: as long as a digit is next, take it.      *)
RECURSIVE readDigitsLoop(_, _)
readDigitsLoop(s, result) ==
    With(readChar(s), LAMBDA r :
        IF isDigit(r.ch) THEN readDigitsLoop(r.rest, result \o toUTF8(r.ch))
        ELSE [ok |-> TRUE, str |-> result, rest |-> s])

readDigitsGreedy(s) ==
    With(readChar(s), LAMBDA r :
        IF ~isDigit(r.ch) THEN ParseErrorAt("Expected a digit", r.ch)
        ELSE readDigitsLoop(r.rest, toUTF8(r.ch)))
readDigits(s) ==
    With(readChar(s), LAMBDA r :
        IF ~isDigit(r.ch) THEN ParseErrorAt("Expected a digit", r.ch)
        ELSE IF r.ch # Ch.zero THEN readDigitsLoop(r.rest, toUTF8(r.ch))
        ELSE [ok |-> TRUE, str |-> toUTF8(r.ch), rest |-> r.rest])

(* What a reader of an optional prefix yields: the prefix, then digits.    *)
PrefixedDigits(prefix, s) ==
    With(readDigits(s), LAMBDA d :
        IF d.ok THEN [ok |-> TRUE, str |-> prefix \o d.str, rest |-> d.rest] ELSE d)

readInt(s) ==
    IF peekChar(s) = Ch.minus
    THEN PrefixedDigits(toUTF8(Ch.minus), readChar(s).rest)
    ELSE PrefixedDigits(<<>>, s)

readFrac(s) ==
    IF peekChar(s) # Ch.dot THEN [ok |-> TRUE, str |-> <<>>, rest |-> s]
    ELSE PrefixedDigits(toUTF8(Ch.dot), readChar(s).rest)

readExp(s) ==
    With(readChar(s), LAMBDA e1 :
        IF e1.ch # Ch.bigE /\ e1.ch # Ch.e THEN [ok |-> TRUE, str |-> <<>>, rest |-> s]
        ELSE With(readChar(e1.rest), LAMBDA sg :
                 IF sg.ch = Ch.plus \/ sg.ch = Ch.minus
                 THEN PrefixedDigits(toUTF8(e1.ch) \o toUTF8(sg.ch), sg.rest)
                 ELSE PrefixedDigits(toUTF8(e1.ch), e1.rest)))

(***************************************************************************)
(* extractor >> result: the text-to-double conversion of an istream.  It   *)
(* takes the longest prefix  [-]digits[.digits][(e|E)[+|-]digits]  and     *)
(* fails when there is none or when the value is beyond a double's range.  *)
(***************************************************************************)
RECURSIVE TakeDigits(_)
TakeDigits(str) ==
    IF str # <<>> /\ isDigit(Head(str))
    THEN With(TakeDigits(Tail(str)), LAMBDA r :
             [digits |-> <<Head(str)>> \o r.digits, rest |-> r.rest])
    ELSE [digits |-> <<>>, rest |-> str]

RECURSIVE DigitsValue(_)
DigitsValue(digits) ==
    IF digits = <<>> THEN 0
    ELSE 10 * DigitsValue(SubSeq(digits, 1, Len(digits) - 1))
         + (digits[Len(digits)] - Ch.zero)

RECURSIVE NumDigits(_)
NumDigits(m) == IF m < 10 THEN 1 ELSE 1 + NumDigits(m \div 10)

MaxExponent10 == 308

(* The exponent at the head of str, if a complete one is there.            *)
TakeExponent(str) ==
    IF str = <<>> \/ Head(str) \notin {Ch.e, Ch.bigE} THEN [value |-> 0, rest |-> str]
    ELSE With(Tail(str), LAMBDA s4 :
         With(s4 # <<>> /\ Head(s4) \in {Ch.plus, Ch.minus}, LAMBDA signed :
         With(TakeDigits(IF signed THEN Tail(s4) ELSE s4), LAMBDA ep :
             IF ep.digits = <<>> THEN [value |-> 0, rest |-> str]
             ELSE [value |-> IF signed /\ Head(s4) = Ch.minus
                             THEN -DigitsValue(ep.digits) ELSE DigitsValue(ep.digits),
                   rest |-> ep.rest])))

TakeFraction(str) ==
    IF str # <<>> /\ Head(str) = Ch.dot THEN TakeDigits(Tail(str))
    ELSE [digits |-> <<>>, rest |-> str]

ExtractDouble(str) ==
    With(str # <<>> /\ Head(str) = Ch.minus, LAMBDA neg :
    With(TakeDigits(IF neg THEN Tail(str) ELSE str), LAMBDA ip :
    With(TakeFraction(ip.rest), LAMBDA fp :
    With(TakeExponent(fp.rest), LAMBDA ep :
    With(DigitsValue(ip.digits \o fp.digits), LAMBDA mant :
    With(Normalise(IF neg THEN -mant ELSE mant, ep.value - Len(fp.digits)), LAMBDA value :
        IF ip.digits = <<>> /\ fp.digits = <<>> THEN [ok |-> FALSE]
        ELSE IF value.m # 0 /\ NumDigits(Abs(value.m)) + value.e - 1 > MaxExponent10
        THEN [ok |-> FALSE]
        ELSE [ok |-> TRUE, num |-> value, rest |-> ep.rest]))))))

(* readNumber once the three parts are read: convert their concatenation.  *)
ConvertNumber(number, rest) ==
    With(ExtractDouble(number), LAMBDA x :
        IF ~x.ok THEN ParseErrorNumber("couldn't interpret it as a double", number)
        ELSE IF ws(x.rest) # <<>> THEN ParseErrorNumber("found extra character", number)
        ELSE [ok |-> TRUE, num |-> x.num, rest |-> rest])

readNumber(s) ==
    With(readInt(s), LAMBDA intPart :
        IF ~intPart.ok THEN intPart
        ELSE With(readFrac(intPart.rest), LAMBDA fracPart :
            IF ~fracPart.ok THEN fracPart
            ELSE With(readExp(fracPart.rest), LAMBDA expPart :
                IF ~expPart.ok THEN expPart
                ELSE ConvertNumber(intPart.str \o fracPart.str \o expPart.str,
                                   expPart.rest))))

(***************************************************************************)
(* readUTF16EscapedChar (Unicode.h): reads \uXXXX, and a second \uXXXX     *)
(* when the first is a high surrogate, and yields the code point.          *)
(***************************************************************************)
HexValue(c) ==
    IF c >= 48 /\ c <= 57 THEN c - 48
    ELSE IF c >= 65 /\ c <= 70 THEN c - 55
    ELSE IF c >= 97 /\ c <= 102 THEN c - 87
    ELSE -1

readUTF16Unit(s) ==
    With([i \in 1..4 |-> IF Len(s) >= i + 2 THEN HexValue(s[i + 2]) ELSE -1], LAMBDA h :
        IF Len(s) < 2 \/ s[1] # Ch.backslash \/ s[2] # Ch.u
        THEN ParseErrorAt("Expected a \\u escape", peekChar(s))
        ELSE IF \E i \in 1..4 : h[i] < 0
        THEN ParseErrorAt("Invalid hex digit in \\u escape", peekChar(SubSeq(s, 3, Len(s))))
        ELSE [ok |-> TRUE, unit |-> 4096 * h[1] + 256 * h[2] + 16 * h[3] + h[4],
              rest |-> SubSeq(s, 7, Len(s))])

IsHighSurrogate(unit) == unit >= 55296 /\ unit <= 56319
IsLowSurrogate(unit)  == unit >= 56320 /\ unit <= 57343

readLowSurrogate(s, hi) ==
    With(readUTF16Unit(s), LAMBDA lo :
        IF ~lo.ok THEN lo
        ELSE IF ~IsLowSurrogate(lo.unit)
        THEN ParseErrorAt("Unpaired high surrogate", peekChar(s))
        ELSE [ok |-> TRUE, cp |-> 65536 + 1024 * (hi - 55296) + (lo.unit - 56320),
              rest |-> lo.rest])

readUTF16EscapedChar(s) ==
    With(readUTF16Unit(s), LAMBDA hi :
        IF ~hi.ok THEN hi
        ELSE IF IsLowSurrogate(hi.unit)
        THEN ParseErrorAt("Unpaired low surrogate", peekChar(s))
        ELSE IF ~IsHighSurrogate(hi.unit)
        THEN [ok |-> TRUE, cp |-> hi.unit, rest |-> hi.rest]
        ELSE readLowSurrogate(hi.rest, hi.unit))

(***************************************************************************)
(* readString: the loop body, with the text decoded so far.  Appending a   *)
(* char32_t to a std::string keeps its low byte.                           *)
(***************************************************************************)
MaxCodePoint == 1114111

SimpleEscape(escaped) ==
    CASE escaped = Ch.quote     -> Ch.quote
      [] escaped = Ch.backslash -> Ch.backslash
      [] escaped = Ch.slash     -> Ch.slash
      [] escaped = Ch.b         -> Ch.bs
      [] escaped = Ch.n         -> Ch.lf
      [] escaped = Ch.r         -> Ch.cr
      [] escaped = Ch.t         -> Ch.tab
      [] OTHER                  -> -1

RECURSIVE readStringLoop(_, _)

(* The escape branch: s is the stream standing on the backslash.           *)
readEscapeOneUnget(s, result) ==
    With(readChar(readChar(s).rest), LAMBDA e :
        IF SimpleEscape(e.ch) >= 0
        THEN readStringLoop(e.rest, Append(result, SimpleEscape(e.ch)))
        ELSE IF e.ch = Ch.u
        THEN With(readUTF16EscapedChar(readChar(s).rest), LAMBDA uni :
                 IF uni.ok THEN readStringLoop(uni.rest, result \o toUTF8(uni.cp))
                 ELSE uni)
        ELSE ParseErrorAt("Unknown escape sequence", e.ch))
readEscape(s, result) ==
    With(readChar(readChar(s).rest), LAMBDA e :
        IF SimpleEscape(e.ch) >= 0
        THEN readStringLoop(e.rest, Append(result, SimpleEscape(e.ch)))
        ELSE IF e.ch = Ch.u
        THEN \* two ungets put the stream back on the backslash
             With(readUTF16EscapedChar(s), LAMBDA uni :
                 IF uni.ok THEN readStringLoop(uni.rest, result \o toUTF8(uni.cp))
                 ELSE uni)
        ELSE ParseErrorAt("Unknown escape sequence", e.ch))

readStringLoopNoControlCheck(s, result) ==
    With(readChar(s), LAMBDA r :
        IF r.ch < 0 \/ r.ch > MaxCodePoint THEN ParseErrorAt("Illegal character", r.ch)
        ELSE IF r.ch = Ch.quote THEN [ok |-> TRUE, str |-> result, rest |-> r.rest]
        ELSE IF r.ch # Ch.backslash THEN readStringLoop(r.rest, Append(result, r.ch % 256))
        ELSE readEscape(s, result))
readStringLoop(s, result) ==
    With(readChar(s), LAMBDA r :
        IF r.ch < 32 \/ r.ch > MaxCodePoint THEN ParseErrorAt("Illegal character", r.ch)
        ELSE IF r.ch = Ch.quote THEN [ok |-> TRUE, str |-> result, rest |-> r.rest]
        ELSE IF r.ch # Ch.backslash THEN readStringLoop(r.rest, Append(result, r.ch % 256))
        ELSE readEscape(s, result))

readString(s) ==
    With(expect(s, Ch.quote), LAMBDA q :
        IF q.ok THEN readStringLoop(q.rest, <<>>) ELSE q)

(***************************************************************************)
(* unordered_map<string, JSON>: a function from its keys.                  *)
(***************************************************************************)
EmptyMap == [k \in {} |-> 0]

MapInsert(elems, key, value) ==
    [k \in DOMAIN elems \cup {key} |-> IF k \in DOMAIN elems THEN elems[k] ELSE value]

(***************************************************************************)
(* The recursive descent over elements, values, arrays and objects.        *)
(***************************************************************************)
RECURSIVE readElement(_), readValue(_), readMember(_)
RECURSIVE readArray(_), readArrayLoop(_, _), readObject(_), readObjectLoop(_, _)

readMember(s) ==
    With(readString(ws(s)), LAMBDA key :
        IF ~key.ok THEN key
        ELSE With(expect(ws(key.rest), Ch.colon), LAMBDA colon :
            IF ~colon.ok THEN colon
            ELSE With(readElement(colon.rest), LAMBDA value :
                IF ~value.ok THEN value
                ELSE [ok |-> TRUE, key |-> key.str, val |-> value.val,
                      rest |-> value.rest])))

(* One turn of readArray's loop: elems holds the elements read so far.     *)
readArrayLoopReversed(s, elems) ==
    With(readElement(s), LAMBDA e :
        IF ~e.ok THEN e
        ELSE With(readChar(e.rest), LAMBDA next :
            IF next.ch = Ch.rbracket
            THEN [ok |-> TRUE, val |-> JSON_vector(<<e.val>> \o elems),
                  rest |-> next.rest]
            ELSE IF next.ch # Ch.comma THEN ParseErrorAt("Expected , or ]", next.ch)
            ELSE readArrayLoop(next.rest, <<e.val>> \o elems)))
readArrayLoopLenient(s, elems) ==
    With(readElement(s), LAMBDA e :
        IF ~e.ok THEN e
        ELSE With(readChar(e.rest), LAMBDA next :
            IF next.ch = Ch.rbracket
               \/ (next.ch = Ch.comma /\ peekChar(next.rest) = Ch.rbracket)
            THEN [ok |-> TRUE, val |-> JSON_vector(Append(elems, e.val)),
                  rest |-> IF next.ch = Ch.comma THEN readChar(next.rest).rest
                           ELSE next.rest]
            ELSE IF next.ch # Ch.comma THEN ParseErrorAt("Expected , or ]", next.ch)
            ELSE readArrayLoop(next.rest, Append(elems, e.val))))
readArrayLoop(s, elems) ==
    With(readElement(s), LAMBDA e :
        IF ~e.ok THEN e
        ELSE With(readChar(e.rest), LAMBDA next :
            IF next.ch = Ch.rbracket
            THEN [ok |-> TRUE, val |-> JSON_vector(Append(elems, e.val)),
                  rest |-> next.rest]
            ELSE IF next.ch # Ch.comma THEN ParseErrorAt("Expected , or ]", next.ch)
            ELSE readArrayLoop(next.rest, Append(elems, e.val))))

readArray(s) ==
    With(expect(s, Ch.lbracket), LAMBDA open :
        IF ~open.ok THEN open
        ELSE IF peekChar(open.rest) = Ch.rbracket
        THEN [ok |-> TRUE, val |-> JSON_vector(<<>>), rest |-> readChar(open.rest).rest]
        ELSE readArrayLoop(open.rest, <<>>))

(* One turn of readObject's loop: elems holds the members inserted so far. *)
readObjectLoopNoDuplicateCheck(s, elems) ==
    With(readMember(s), LAMBDA m :
        IF ~m.ok THEN m
        ELSE With(readChar(m.rest), LAMBDA next :
            IF next.ch = Ch.rbrace
            THEN [ok |-> TRUE, val |-> JSON_map(MapInsert(elems, m.key, m.val)),
                  rest |-> next.rest]
            ELSE IF next.ch # Ch.comma THEN ParseErrorAt("Expected , or }", next.ch)
            ELSE readObjectLoop(next.rest, MapInsert(elems, m.key, m.val))))
readObjectLoop(s, elems) ==
    With(readMember(s), LAMBDA m :
        IF ~m.ok THEN m
        ELSE IF m.key \in DOMAIN elems THEN ParseErrorKey(m.key)
        ELSE With(readChar(m.rest), LAMBDA next :
            IF next.ch = Ch.rbrace
            THEN [ok |-> TRUE, val |-> JSON_map(MapInsert(elems, m.key, m.val)),
                  rest |-> next.rest]
            ELSE IF next.ch # Ch.comma THEN ParseErrorAt("Expected , or }", next.ch)
            ELSE readObjectLoop(next.rest, MapInsert(elems, m.key, m.val))))

readObject(s) ==
    With(expect(s, Ch.lbrace), LAMBDA open :
        IF ~open.ok THEN open
        ELSE IF peekChar(open.rest) = Ch.rbrace
        THEN [ok |-> TRUE, val |-> JSON_map(EmptyMap), rest |-> readChar(open.rest).rest]
        ELSE readObjectLoop(open.rest, EmptyMap))

(* JSON(readString(input)) and its like: the handle around what was read.  *)
Wrapped(r, node) ==
    IF r.ok THEN [ok |-> TRUE, val |-> node, rest |-> r.rest] ELSE r

readValue(s) ==
    With(peekChar(s), LAMBDA next :
        IF next = Ch.lbrace THEN readObject(s)
        ELSE IF next = Ch.lbracket THEN readArray(s)
        ELSE IF next = Ch.quote
        THEN With(readString(s), LAMBDA r : Wrapped(r, JSON_string(r.str)))
        ELSE IF next = Ch.minus \/ isDigit(next)
        THEN With(readNumber(s), LAMBDA r : Wrapped(r, JSON_double(r.num)))
        ELSE IF next = Ch.t \/ next = Ch.f
        THEN With(readBoolean(s), LAMBDA r : Wrapped(r, JSON_bool(r.bool)))
        ELSE IF next = Ch.n
        THEN With(readNull(s), LAMBDA r : Wrapped(r, JSON_null("nullptr")))
        ELSE ParseErrorAt("Not sure how to handle value starting with character", next))

readElement(s) ==
    With(readValue(ws(s)), LAMBDA result :
        IF result.ok
        THEN [ok |-> TRUE, val |-> result.val, rest |-> ws(result.rest)]
        ELSE result)

(* JSON::parse: one element, then nothing but whitespace.  What is left is *)
(* read with  input >> leftover  into a char: one byte of the stream, the  *)
(* first byte of the UTF-8 form of the character standing there.           *)
JSON_parse(text) ==
    With(readElement(text), LAMBDA result :
        IF ~result.ok THEN result
        ELSE IF ws(result.rest) # <<>>
        THEN ParseErrorAt("Unexpected character found at end of stream",
                          Head(toUTF8(Head(ws(result.rest)))))
        ELSE [ok |-> TRUE, val |-> result.val])

(***************************************************************************)
(* Serialization: operator<< and the print methods.  The text is a         *)
(* sequence of bytes.                                                      *)
(***************************************************************************)

(* The characters readChar finds in a std::string: its bytes decoded as    *)
(* UTF-8 (Unicode.h).  A byte that opens no sequence is left as it is.     *)
RECURSIVE fromUTF8(_)
fromUTF8(bytes) ==
    IF bytes = <<>> THEN <<>>
    ELSE With(Head(bytes), LAMBDA b :
        IF b >= 192 /\ b < 224 /\ Len(bytes) >= 2
        THEN <<(b - 192) * 64 + (bytes[2] - 128)>> \o fromUTF8(SubSeq(bytes, 3, Len(bytes)))
        ELSE IF b >= 224 /\ b < 240 /\ Len(bytes) >= 3
        THEN <<(b - 224) * 4096 + (bytes[2] - 128) * 64 + (bytes[3] - 128)>>
                \o fromUTF8(SubSeq(bytes, 4, Len(bytes)))
        ELSE IF b >= 240 /\ b < 248 /\ Len(bytes) >= 4
        THEN <<(b - 240) * 262144 + (bytes[2] - 128) * 4096
                 + (bytes[3] - 128) * 64 + (bytes[4] - 128)>>
                \o fromUTF8(SubSeq(bytes, 5, Len(bytes)))
        ELSE <<b>> \o fromUTF8(Tail(bytes)))

(* utf16EscapeFor (Unicode.h): \uXXXX, or a surrogate pair above 0xFFFF.   *)
HexDigit(v) == IF v < 10 THEN Ch.zero + v ELSE 55 + v

utf16Unit(unit) ==
    <<Ch.backslash, Ch.u, HexDigit((unit \div 4096) % 16), HexDigit((unit \div 256) % 16),
      HexDigit((unit \div 16) % 16), HexDigit(unit % 16)>>

utf16EscapeFor(cp) ==
    IF cp < 65536 THEN utf16Unit(cp)
    ELSE utf16Unit(55296 + ((cp - 65536) \div 1024))
           \o utf16Unit(56320 + ((cp - 65536) % 1024))

(* printString: the loop body for one character, then the whole string.    *)
printChar(ch) ==
    IF      ch = Ch.quote     THEN <<Ch.backslash, Ch.quote>>
    ELSE IF ch = Ch.backslash THEN <<Ch.backslash, Ch.backslash>>
    ELSE IF ch = Ch.slash     THEN <<Ch.backslash, Ch.slash>>
    ELSE IF ch = Ch.bs        THEN <<Ch.backslash, Ch.b>>
    ELSE IF ch = Ch.lf        THEN <<Ch.backslash, Ch.n>>
    ELSE IF ch = Ch.cr        THEN <<Ch.backslash, Ch.r>>
    ELSE IF ch = Ch.tab       THEN <<Ch.backslash, Ch.t>>
    ELSE IF ch >= 32 /\ ch <= 127 THEN <<ch>>
    ELSE utf16EscapeFor(ch)

RECURSIVE printChars(_)
printChars(s) ==
    IF peekChar(s) = EOFChar THEN <<>>
    ELSE With(readChar(s), LAMBDA r : printChar(r.ch) \o printChars(r.rest))

printString(str) == <<Ch.quote>> \o printChars(fromUTF8(str)) \o <<Ch.quote>>

(***************************************************************************)
(* out << mValue for a double: the stream's default format, six            *)
(* significant digits, fixed notation when the decimal exponent is in      *)
(* -4..5 and scientific otherwise, without trailing zeros.                 *)
(***************************************************************************)
RECURSIVE DigitsOf(_)
DigitsOf(n) == IF n < 10 THEN <<Ch.zero + n>> ELSE Append(DigitsOf(n \div 10), Ch.zero + (n % 10))

Zeros(k) == [i \in 1..k |-> Ch.zero]

(* d rounded to six significant digits (to nearest).                       *)
RoundToPrecision(d) ==
    With(NumDigits(Abs(d.m)) - 6, LAMBDA drop :
        IF drop <= 0 THEN d
        ELSE With((Abs(d.m) + 5 * Pow10(drop - 1)) \div Pow10(drop), LAMBDA kept :
                 Normalise(IF d.m < 0 THEN -kept ELSE kept, d.e + drop)))

PrintDigits(ds, e) ==
    With(Len(ds) + e - 1, LAMBDA X :
        IF X < -4 \/ X >= 6
        THEN <<ds[1]>> \o (IF Len(ds) > 1 THEN <<Ch.dot>> \o Tail(ds) ELSE <<>>)
               \o <<Ch.e, IF X < 0 THEN Ch.minus ELSE Ch.plus>>
               \o (IF Abs(X) < 10 THEN <<Ch.zero>> ELSE <<>>) \o DigitsOf(Abs(X))
        ELSE IF e >= 0 THEN ds \o Zeros(e)
        ELSE IF X >= 0 THEN SubSeq(ds, 1, X + 1) \o <<Ch.dot>> \o SubSeq(ds, X + 2, Len(ds))
        ELSE <<Ch.zero, Ch.dot>> \o Zeros(-X - 1) \o ds)

PrintDouble(d) ==
    IF d.m = 0 THEN <<Ch.zero>>
    ELSE With(RoundToPrecision(d), LAMBDA r :
             (IF r.m < 0 THEN <<Ch.minus>> ELSE <<>>)
                \o PrintDigits(DigitsOf(Abs(r.m)), r.e))

(* The orders in which an unordered_map may hand out its keys: any.         *)
Orders(keys) ==
    { o \in [1..Cardinality(keys) -> keys] :
        \A i, k \in 1..Cardinality(keys) : i # k => o[i] # o[k] }

(* print: the texts a node may be written as (one per order of the keys of *)
(* the objects in it).                                                     *)
RECURSIVE JSON_print(_), ArrayJSON_printFrom(_, _), ObjectJSON_printFrom(_, _, _)

(* ArrayJSON::print's loop from index i on (i counts from 1 here).         *)
ArrayJSON_printFrom(node, i) ==
    IF i > Len(node.mElems) THEN { <<>> }
    ELSE { head \o (IF i = Len(node.mElems) THEN <<>> ELSE <<Ch.comma>>) \o rest :
             head \in JSON_print(node.mElems[i]),
             rest \in ArrayJSON_printFrom(node, i + 1) }

(* ObjectJSON::print's loop over the keys in the order the map has them.   *)
ObjectJSON_printFrom(node, order, i) ==
    IF i > Len(order) THEN { <<>> }
    ELSE { printString(order[i]) \o <<Ch.colon>> \o value
             \o (IF i = Len(order) THEN <<>> ELSE <<Ch.comma>>) \o rest :
             value \in JSON_print(node.mMap[order[i]]),
             rest \in ObjectJSON_printFrom(node, order, i + 1) }

JSON_print(node) ==
    CASE node.mType = "NULLPTR_T" -> { <<Ch.n, Ch.u, Ch.l, Ch.l>> }
      [] node.mType = "BOOLEAN"   -> { IF node.mBool THEN <<Ch.t, Ch.r, Ch.u, Ch.e>>
                                       ELSE <<Ch.f, Ch.a, Ch.l, Ch.s, Ch.e>> }
      [] node.mType = "NUMBER"    -> { PrintDouble(node.mNum) }
      [] node.mType = "STRING"    -> { printString(node.mStr) }
      [] node.mType = "ARRAY"     ->
            { <<Ch.lbracket>> \o body \o <<Ch.rbracket>> :
                body \in ArrayJSON_printFrom(node, 1) }
      [] node.mType = "OBJECT"    ->
            { <<Ch.lbrace>> \o body \o <<Ch.rbrace>> :
                body \in UNION { ObjectJSON_printFrom(node, order, 1) :
                                   order \in Orders(DOMAIN node.mMap) } }

(***************************************************************************)
(* Iteration.  A JSONSource lives on the heap and is shared by the         *)
(* const_iterators that point to it; a const_iterator is its mImpl: the    *)
(* identity of a source, or NullSource for an empty shared_ptr.  Positions *)
(* in a container count from 1, and mEnd is one past the last.             *)
(***************************************************************************)
NullSource == 0

(* ArrayJSON::source: VectorJSONSource over mElems.begin() .. mElems.end().*)
VectorJSONSource(elems) ==
    [class |-> "VectorJSONSource", mElems |-> elems, mCurr |-> 1]

VectorJSONSource_advance(src) == [src EXCEPT !.mCurr = @ + 1]
VectorJSONSource_finished(src) == src.mCurr = Len(src.mElems) + 1
VectorJSONSource_currentFirst(src) == src.mElems[1]
VectorJSONSource_current(src) == src.mElems[src.mCurr]

ArrayJSON_source(node) == { VectorJSONSource(node.mElems) }

(* ObjectJSON::source: MapJSONSource over the map's keys, in the order the *)
(* unordered_map has them, with the current key staged as a String.        *)
MapJSONSource(keys) ==
    [class |-> "MapJSONSource", mKeys |-> keys, mCurr |-> 1,
     mStaged |-> IF keys # <<>> THEN JSON_string(keys[1]) ELSE JSON_null("nullptr")]

MapJSONSource_advanceUnstaged(src) == [src EXCEPT !.mCurr = @ + 1]
MapJSONSource_advance(src) ==
    IF src.mCurr + 1 # Len(src.mKeys) + 1
    THEN [src EXCEPT !.mCurr = @ + 1, !.mStaged = JSON_string(src.mKeys[src.mCurr + 1])]
    ELSE [src EXCEPT !.mCurr = @ + 1]
MapJSONSource_finished(src) == src.mCurr = Len(src.mKeys) + 1
MapJSONSource_current(src) == src.mStaged

ObjectJSON_source(node) == { MapJSONSource(order) : order \in Orders(DOMAIN node.mMap) }

(* The virtual calls through JSONSource.                                   *)
JSONSource_advance(src) ==
    IF src.class = "VectorJSONSource" THEN VectorJSONSource_advance(src)
    ELSE MapJSONSource_advance(src)
JSONSource_finished(src) ==
    IF src.class = "VectorJSONSource" THEN VectorJSONSource_finished(src)
    ELSE MapJSONSource_finished(src)
JSONSource_current(src) ==
    IF src.class = "VectorJSONSource" THEN VectorJSONSource_current(src)
    ELSE MapJSONSource_current(src)

IterableJSON_source(node) ==
    IF node.mType = "ARRAY" THEN ArrayJSON_source(node) ELSE ObjectJSON_source(node)

(* JSON::begin / cbegin: the sources it may hand out, or the failed cast.  *)
JSON_beginOfArraysOnly(j) ==
    LET p == As("ArrayJSON", j)
    IN  IF p.ok THEN { [ok |-> TRUE, source |-> s] : s \in IterableJSON_source(p.ptr) }
        ELSE { p }
JSON_begin(j) ==
    LET p == As("IterableJSON", j)
    IN  IF p.ok THEN { [ok |-> TRUE, source |-> s] : s \in IterableJSON_source(p.ptr) }
        ELSE { p }
JSON_cbegin(j) == JSON_begin(j)

(* JSON::end / cend: a const_iterator with an empty mImpl.                 *)
JSON_end(j) == [mImpl |-> NullSource]
JSON_cend(j) == JSON_end(j)

(* const_iterator::operator== and !=, with the heap the mImpl's point into.*)
const_iterator_eq(lhs, rhs, heap) ==
    IF lhs.mImpl = NullSource /\ rhs.mImpl = NullSource THEN TRUE
    ELSE IF lhs.mImpl = NullSource THEN JSONSource_finished(heap[rhs.mImpl])
    ELSE IF rhs.mImpl = NullSource THEN JSONSource_finished(heap[lhs.mImpl])
    ELSE lhs.mImpl = rhs.mImpl

const_iterator_neq(lhs, rhs, heap) == ~const_iterator_eq(lhs, rhs, heap)

(* operator++ on it, with the sources on the heap: the iterator returned   *)
(* and the heap afterwards.  The postfix form copies the iterator first;   *)
(* the copy holds the same shared_ptr.                                     *)
const_iterator_preinc(it, heap) ==
    [result |-> it, heap |-> [heap EXCEPT ![it.mImpl] = JSONSource_advance(@)]]

const_iterator_postincUnmoved(it, heap) == [result |-> it, heap |-> heap]
const_iterator_postinc(it, heap) ==
    [result |-> [mImpl |-> it.mImpl], heap |-> const_iterator_preinc(it, heap).heap]

(***************************************************************************)
(* Inputs.  Payloads handed to the constructors, arguments handed to the   *)
(* accessors, and the texts handed to the parser.                          *)
(***************************************************************************)
StrA == <<Ch.a>>
StrB == <<Ch.b>>

Strings == {<<>>, StrA, StrB}
Doubles == {Double(0), Double(1), Double(-1), Normalise(15, -1),
            Double(1000000), Double(1234567)}

(* Strings of characters the serializer treats in its different ways: the  *)
(* seven with an escape of their own, controls, the ends of the ASCII      *)
(* range, U+00E9 and U+1F600 (as UTF-8), and a mix.                        *)
SpecialStrings ==
    { <<Ch.quote>>, <<Ch.backslash>>, <<Ch.slash>>, <<Ch.bs>>, <<Ch.lf>>, <<Ch.cr>>,
      <<Ch.tab>>, <<31>>, <<0>>, <<Ch.space>>, <<126>>, <<127>>, <<195, 169>>,
      <<240, 159, 152, 128>>, <<Ch.a, Ch.quote, 195, 169, Ch.b>> }
Bools   == BOOLEAN

SeqsUpTo(S, n) == UNION { [1..k -> S] : k \in 0..n }

MapsUpTo(K, S, n) ==
    UNION { [D -> S] : D \in { X \in SUBSET K : Cardinality(X) <= n } }

(* Children put into arrays and objects: already-built handles.            *)
Children ==
    { JSON_null("nullptr"), JSON_bool(TRUE), JSON_double(Double(1)),
      JSON_double(Double(2)), JSON_string(StrA),
      JSON_vector(<<JSON_double(Double(1)), JSON_double(Double(2)),
                    JSON_double(Double(3))>>),
      JSON_map((StrA :> JSON_double(Double(1)))) }

Indices == 0..MaxIndex

KeyValues ==
    { JSON_null("nullptr"), JSON_bool(FALSE), JSON_vector(<<>>), JSON_map(EmptyMap) }
    \cup { JSON_double(d) : d \in Doubles } \cup { JSON_string(s) : s \in Strings }

(* Texts.  A text is described by a document: its shape and its parts.     *)
T_null  == <<Ch.n, Ch.u, Ch.l, Ch.l>>
T_true  == <<Ch.t, Ch.r, Ch.u, Ch.e>>
T_one   == <<Ch.zero + 1>>
T_two   == <<Ch.zero + 2>>
T_three == <<Ch.zero + 3>>
T_a     == <<Ch.quote, Ch.a, Ch.quote>>
T_b     == <<Ch.quote, Ch.b, Ch.quote>>
(* a key holding the raw code point U+0161 *)
T_s     == <<Ch.quote, 353, Ch.quote>>

RECURSIVE Join(_, _)
Join(texts, sep) ==
    IF texts = <<>> THEN <<>>
    ELSE IF Len(texts) = 1 THEN texts[1]
    ELSE texts[1] \o sep \o Join(Tail(texts), sep)

ArrayText(elems, inner, sep, tail) ==
    <<Ch.lbracket>> \o inner \o Join(elems, sep) \o tail \o <<Ch.rbracket>>

MemberText(m) == m.key \o <<Ch.colon>> \o m.val

ObjectText(members, inner, sep, tail) ==
    <<Ch.lbrace>> \o inner
      \o Join([i \in 1..Len(members) |-> MemberText(members[i])], sep)
      \o tail \o <<Ch.rbrace>>

T_123   == ArrayText(<<T_one, T_two, T_three>>, <<>>, <<Ch.comma>>, <<>>)
T_dup   == ObjectText(<<[key |-> T_a, val |-> T_one], [key |-> T_a, val |-> T_two]>>,
                      <<>>, <<Ch.comma>>, <<>>)
T_spec  == ObjectText(<<[key |-> T_a, val |-> T_one], [key |-> T_b, val |-> T_123]>>,
                      <<>>, <<Ch.comma>>, <<>>)

ElemTexts   == { T_one, T_null, T_true, T_a, <<Ch.space>> \o T_two \o <<Ch.lf>>,
                 T_123, T_dup, <<Ch.a>> }
ValueTexts  == { T_one, <<Ch.space>> \o T_a, T_123, T_dup }
KeyTexts    == { T_a, T_b, T_s }
InnerSpaces == { <<>>, <<Ch.space>>, <<Ch.tab, Ch.lf>> }
Separators  == { <<Ch.comma>>, <<Ch.colon>>, <<Ch.space>> }
Tails       == { <<>>, <<Ch.comma>> }

ArrayDocs ==
    { [shape |-> "array", elems |-> es, inner |-> <<>>, sep |-> sep, tail |-> tl] :
        es \in SeqsUpTo(ElemTexts, MaxArrayLen) \ {<<>>}, sep \in Separators, tl \in Tails }
    \cup
    { [shape |-> "array", elems |-> <<>>, inner |-> in, sep |-> <<Ch.comma>>, tail |-> <<>>] :
        in \in InnerSpaces }

ObjectDocs ==
    { [shape |-> "object", members |-> ms, inner |-> <<>>, sep |-> sep, tail |-> tl] :
        ms \in SeqsUpTo([key : KeyTexts, val : ValueTexts], MaxMembers) \ {<<>>},
        sep \in Separators, tl \in Tails }
    \cup
    { [shape |-> "object", members |-> <<>>, inner |-> in, sep |-> <<Ch.comma>>,
       tail |-> <<>>] : in \in InnerSpaces }

(* Numbers by their parts: sign, integer digits, fraction, exponent.       *)
Digit(d) == Ch.zero + d

Signs     == { <<>>, <<Ch.minus>> }
IntParts  == { <<Digit(0)>>, <<Digit(1)>>, <<Digit(1), Digit(2)>>, <<Digit(1), Digit(0)>>,
               <<Digit(0), Digit(1)>> }
FracParts == { <<>>, <<Digit(5)>>, <<Digit(0)>>, <<Digit(0), Digit(5)>>,
               <<Digit(5), Digit(0)>>, <<Digit(0), Digit(0), Digit(1)>> }
ExpMarks  == { <<Ch.e>>, <<Ch.bigE>>, <<Ch.e, Ch.plus>>, <<Ch.e, Ch.minus>> }
ExpParts  == { <<>>, <<Digit(2)>>, <<Digit(0)>>, <<Digit(0), Digit(5)>>, <<Digit(1), Digit(0)>> }

NumberDocs ==
    { [shape |-> "number", sign |-> sg, int |-> ip, frac |-> fp, mark |-> mk, exp |-> ep] :
        sg \in Signs, ip \in IntParts, fp \in FracParts, mk \in ExpMarks, ep \in ExpParts }

NumberText(doc) ==
    doc.sign \o doc.int
      \o (IF doc.frac = <<>> THEN <<>> ELSE <<Ch.dot>> \o doc.frac)
      \o (IF doc.exp = <<>> THEN <<>> ELSE doc.mark \o doc.exp)

T_trailA == ArrayText(<<T_one, T_two>>, <<>>, <<Ch.comma>>, <<Ch.comma>>)
T_trailO == ObjectText(<<[key |-> T_a, val |-> T_one]>>, <<>>, <<Ch.comma>>, <<Ch.comma>>)

RawTexts ==
    { T_null, T_true, <<Ch.f, Ch.a, Ch.l, Ch.s, Ch.e>>, T_a, T_spec, T_trailA, T_trailO,
      T_dup, <<Ch.space>> \o T_null \o <<Ch.space>>, <<Ch.n, Ch.u, Ch.l>>,
      <<Ch.quote, Ch.a>>, <<Ch.quote, Ch.a, Ch.backslash>>, <<>> }

RawDocs == { [shape |-> "raw", text |-> tx] : tx \in RawTexts }

(* An integer part on its own, at top level, in an array and in an object. *)
IntForms == { <<Digit(0)>>, <<Digit(7)>>, <<Digit(1), Digit(0)>>, <<Digit(0), Digit(1)>>,
              <<Digit(0), Digit(0)>>, <<Digit(0), Digit(1), Digit(2)>>, <<>>, <<Ch.a>> }
Contexts == { "top", "array", "object" }

IntDocs ==
    { [shape |-> "int", sign |-> sg, int |-> ip, ctx |-> cx] :
        sg \in Signs, ip \in IntForms, cx \in Contexts }

InContext(text, ctx) ==
    CASE ctx = "top"    -> text
      [] ctx = "array"  -> ArrayText(<<text>>, <<>>, <<Ch.comma>>, <<>>)
      [] ctx = "object" -> ObjectText(<<[key |-> T_a, val |-> text]>>, <<>>,
                                      <<Ch.comma>>, <<>>)

(* String literals: one item between two optional plain characters, with   *)
(* or without the closing quote.  An item is a piece of literal text; cp   *)
(* is the code point it stands for (none for a piece the grammar forbids). *)
Escape(c) == <<Ch.backslash, c>>
Hex4(h1, h2, h3, h4) == <<Ch.backslash, Ch.u, h1, h2, h3, h4>>

StringItems ==
    { [kind |-> "plain",   text |-> <<Ch.a>>,             cp |-> Ch.a],
      [kind |-> "simple",  text |-> Escape(Ch.quote),     cp |-> 34],
      [kind |-> "simple",  text |-> Escape(Ch.backslash), cp |-> 92],
      [kind |-> "simple",  text |-> Escape(Ch.slash),     cp |-> 47],
      [kind |-> "simple",  text |-> Escape(Ch.b),         cp |-> 8],
      [kind |-> "simple",  text |-> Escape(Ch.n),         cp |-> 10],
      [kind |-> "simple",  text |-> Escape(Ch.r),         cp |-> 13],
      [kind |-> "simple",  text |-> Escape(Ch.t),         cp |-> 9],
      [kind |-> "unicode", text |-> Hex4(48, 48, 52, 49), cp |-> 65],
      [kind |-> "unicode", text |-> Hex4(48, 48, 101, 57), cp |-> 233],
      [kind |-> "pair",    text |-> Hex4(68, 56, 51, 68) \o Hex4(68, 69, 48, 48),
                                                          cp |-> 128512],
      [kind |-> "unicode", text |-> Hex4(50, 48, 97, 99), cp |-> 8364],
      [kind |-> "raw",     text |-> <<128>>,              cp |-> 128],
      [kind |-> "raw",     text |-> <<233>>,              cp |-> 233],
      [kind |-> "raw",     text |-> <<8364>>,             cp |-> 8364],
      [kind |-> "raw",     text |-> <<128512>>,           cp |-> 128512],
      [kind |-> "control", text |-> <<31>>,               cp |-> -1],
      [kind |-> "control", text |-> <<Ch.lf>>,            cp |-> -1],
      [kind |-> "unknown", text |-> Escape(120),          cp |-> -1],
      [kind |-> "unknown", text |-> Escape(Ch.zero),      cp |-> -1] }

Plain == { <<>>, <<Ch.b>> }

StringDocs ==
    { [shape |-> "string", pre |-> pr, item |-> it, post |-> po, closed |-> cl] :
        pr \in Plain, it \in StringItems, po \in Plain, cl \in BOOLEAN }

StringText(doc) ==
    <<Ch.quote>> \o doc.pre \o doc.item.text \o doc.post
      \o (IF doc.closed THEN <<Ch.quote>> ELSE <<>>)

(* One element, then a gap of whitespace, then whatever else is there.     *)
T_empty     == <<Ch.lbrace, Ch.rbrace>>
TrailElems  == { T_one, T_null, T_empty, T_a, T_123 }
Gaps        == { <<>>, <<Ch.space>>, <<Ch.lf, Ch.tab>> }
Extras      == { <<>>, <<120>>, <<Ch.l>>, <<Digit(2)>>, <<Ch.comma>>, <<Ch.rbracket>>,
                 <<233>>, <<120, Ch.space>> }

(* 1 directly followed by 2 is the one number 12, not an element and more. *)
TrailDocs ==
    { d \in [shape : {"trail"}, elem : TrailElems, gap : Gaps, extra : Extras] :
        ~(d.elem = T_one /\ d.gap = <<>> /\ d.extra = <<Digit(2)>>) }

Docs ==
    ArrayDocs \cup ObjectDocs \cup NumberDocs \cup RawDocs \cup IntDocs \cup StringDocs
      \cup TrailDocs

Render(doc) ==
    CASE doc.shape = "array"  -> ArrayText(doc.elems, doc.inner, doc.sep, doc.tail)
      [] doc.shape = "object" -> ObjectText(doc.members, doc.inner, doc.sep, doc.tail)
      [] doc.shape = "number" -> NumberText(doc)
      [] doc.shape = "raw"    -> doc.text
      [] doc.shape = "int"    -> InContext(doc.sign \o doc.int, doc.ctx)
      [] doc.shape = "string" -> StringText(doc)
      [] doc.shape = "trail"  -> doc.elem \o doc.gap \o doc.extra

(***************************************************************************)
(* CSV (CSV.cpp).  An istream is the sequence of bytes still to be read;   *)
(* error(msg) ends the constructor or accessor with a fatal error.         *)
(***************************************************************************)
CsvError(reason) == [ok |-> FALSE, err |-> "error", reason |-> reason]

(* readOneTokenFrom, a field that does not start with a quote: the loop.   *)
RECURSIVE readUnquoted(_, _)
readUnquoted(s, result) ==
    IF s = <<>> THEN [ok |-> TRUE, token |-> result, rest |-> s]
    ELSE IF Head(s) = Ch.comma THEN [ok |-> TRUE, token |-> result, rest |-> s]
    ELSE readUnquoted(Tail(s), Append(result, Head(s)))

(* readOneTokenFrom, a field that starts with a quote: the loop, entered   *)
(* after the quotation mark has been skipped.                              *)
RECURSIVE readQuoted(_, _)
readQuotedToFirstQuote(s, result) ==
    IF s = <<>> THEN CsvError("Unterminated string literal.")
    ELSE IF Head(s) # Ch.quote THEN readQuoted(Tail(s), Append(result, Head(s)))
    ELSE [ok |-> TRUE, token |-> result, rest |-> Tail(s)]
readQuoted(s, result) ==
    IF s = <<>> THEN CsvError("Unterminated string literal.")
    ELSE IF Head(s) # Ch.quote THEN readQuoted(Tail(s), Append(result, Head(s)))
    ELSE With(Tail(s), LAMBDA after :
        IF after = <<>> THEN [ok |-> TRUE, token |-> result, rest |-> after]
        ELSE IF Head(after) = Ch.comma THEN [ok |-> TRUE, token |-> result, rest |-> after]
        ELSE IF Head(after) = Ch.quote
        THEN readQuoted(Tail(after), Append(result, Ch.quote))
        ELSE CsvError("Unexpected character found after quote."))

readOneTokenFrom(s) ==
    IF s # <<>> /\ Head(s) = Ch.comma THEN [ok |-> TRUE, token |-> <<>>, rest |-> s]
    ELSE IF s = <<>> \/ Head(s) # Ch.quote THEN readUnquoted(s, <<>>)
    ELSE readQuoted(Tail(s), <<>>)

(* tokenize: the loop over the line's stream, then the whole function.     *)
RECURSIVE tokenizeFrom(_, _)
tokenizeFrom(s, result) ==
    With(readOneTokenFrom(s), LAMBDA tok :
        IF ~tok.ok THEN tok
        ELSE IF tok.rest = <<>> THEN [ok |-> TRUE, tokens |-> Append(result, tok.token)]
        ELSE IF Head(tok.rest) # Ch.comma
        THEN CsvError("Entries in CSV file aren't comma-separated?")
        ELSE tokenizeFrom(Tail(tok.rest), Append(result, tok.token)))

tokenize(line) ==
    IF line = <<>> THEN CsvError("Empty line in CSV file.")
    ELSE tokenizeFrom(line, <<>>)

(* getline(input, line): fails when nothing is left; otherwise takes the   *)
(* bytes up to the next newline and the newline itself.                    *)
LineEnd(s) ==
    IF \E i \in 1..Len(s) : s[i] = Ch.lf
    THEN CHOOSE i \in 1..Len(s) : s[i] = Ch.lf /\ \A j \in 1..(i - 1) : s[j] # Ch.lf
    ELSE Len(s) + 1

getline(s) ==
    IF s = <<>> THEN [ok |-> FALSE, line |-> <<>>, rest |-> s]
    ELSE [ok |-> TRUE, line |-> SubSeq(s, 1, LineEnd(s) - 1),
          rest |-> SubSeq(s, LineEnd(s) + 1, Len(s))]

(* LinkedHashMap<string, int>: its entries in insertion order.             *)
LinkedHashMap_containsKey(map, key) == \E i \in 1..Len(map) : map[i].key = key
LinkedHashMap_get(map, key) == (CHOOSE e \in { map[i] : i \in 1..Len(map) } : e.key = key).value

(* readHeaders: the loop over the header row's tokens, then the function.  *)
RECURSIVE readHeadersLoop(_, _)
readHeadersLoopKeepingAll(tokens, result) ==
    IF tokens = <<>> THEN [ok |-> TRUE, headers |-> result]
    ELSE readHeadersLoop(Tail(tokens),
                         Append(result, [key |-> Head(tokens), value |-> Len(result)]))
readHeadersLoop(tokens, result) ==
    IF tokens = <<>> THEN [ok |-> TRUE, headers |-> result]
    ELSE IF LinkedHashMap_containsKey(result, Head(tokens))
    THEN CsvError("Duplicate column header")
    ELSE readHeadersLoop(Tail(tokens),
                         Append(result, [key |-> Head(tokens), value |-> Len(result)]))

readHeaders(s) ==
    With(getline(s), LAMBDA g :
        IF ~g.ok THEN CsvError("Could not read header row from CSV source.")
        ELSE With(tokenize(g.line), LAMBDA toks :
            IF ~toks.ok THEN toks
            ELSE With(readHeadersLoop(toks.tokens, <<>>), LAMBDA h :
                IF ~h.ok THEN h
                ELSE [ok |-> TRUE, headers |-> h.headers, rest |-> g.rest])))

(* readBody: the loop over the lines left, then the grid they are          *)
(* flattened into (rows and columns are 0-based in the code).              *)
RECURSIVE readBodyLines(_, _, _)
readBodyLines(s, numCols, lines) ==
    With(getline(s), LAMBDA g :
        IF ~g.ok THEN [ok |-> TRUE, lines |-> lines]
        ELSE With(tokenize(g.line), LAMBDA toks :
            IF ~toks.ok THEN toks
            ELSE IF Len(toks.tokens) # numCols
            THEN CsvError("Lines have varying number of entries.")
            ELSE readBodyLines(g.rest, numCols, Append(lines, toks.tokens))))

readBody(s, numCols) ==
    With(readBodyLines(s, numCols, <<>>), LAMBDA body :
        IF ~body.ok THEN body
        ELSE [ok |-> TRUE,
              grid |-> [nRows |-> Len(body.lines), nCols |-> numCols,
                        elems |-> [row \in 1..Len(body.lines) |->
                                     [col \in 1..numCols |-> body.lines[row][col]]]]])

(* CSV::CSV(istream&) *)
CSV_CSV(s) ==
    With(readHeaders(s), LAMBDA h :
        IF ~h.ok THEN h
        ELSE With(readBody(h.rest, Len(h.headers)), LAMBDA b :
            IF ~b.ok THEN b
            ELSE [ok |-> TRUE,
                  csv |-> [mColumnHeaders |-> h.headers, mData |-> b.grid]]))

CSV_numRows(c) == c.mData.nRows
CSV_numCols(c) == c.mData.nCols
CSV_headers(c) == [i \in 1..Len(c.mColumnHeaders) |-> c.mColumnHeaders[i].key]

(* csv[row], then [col] or [colHeader] on the RowRef.                      *)
CSV_at(c, row) ==
    IF row < 0 \/ row >= CSV_numRows(c) THEN CsvError("Row out of range.")
    ELSE [ok |-> TRUE, ref |-> [mRow |-> row]]

RowRef_at(c, ref, col) ==
    IF col < 0 \/ col >= CSV_numCols(c) THEN CsvError("Column out of range.")
    ELSE [ok |-> TRUE, str |-> c.mData.elems[ref.mRow + 1][col + 1]]

RowRef_atHeader(c, ref, colHeader) ==
    IF ~LinkedHashMap_containsKey(c.mColumnHeaders, colHeader)
    THEN CsvError("Column not found")
    ELSE RowRef_at(c, ref, LinkedHashMap_get(c.mColumnHeaders, colHeader))

(***************************************************************************)
(* CSV sources.  A table: a header row, data rows and whether the last     *)
(* line ends in a newline.  A line under the tokenizer: fields of the      *)
(* forms a field can take, below a header with as many columns.            *)
(***************************************************************************)
CsvLine(cells) == Join(cells, <<Ch.comma>>)

RECURSIVE CsvLines(_)
CsvLines(lines) ==
    IF lines = <<>> THEN <<>> ELSE CsvLine(Head(lines)) \o <<Ch.lf>> \o CsvLines(Tail(lines))

CsvText(lines, final) ==
    With(CsvLines(lines), LAMBDA text :
        IF final \/ text = <<>> THEN text ELSE SubSeq(text, 1, Len(text) - 1))

HeaderRows ==
    { <<>>, <<StrA>>, <<StrA, StrB>>, <<StrA, StrA>>, <<StrA, <<>>>>, <<<<>>, <<>>>>,
      <<StrA, StrB, StrA>>, <<StrA, StrB, <<>>>> }

DataRows ==
    { <<>>, <<T_one>>, <<T_one, T_two>>, <<T_two, T_one>>, <<T_one, <<>>>>,
      <<T_one, T_two, <<>>>> }

TableDocs ==
    { doc \in [shape : {"table"}, header : HeaderRows,
               rows : {<<>>} \cup { <<r>> : r \in DataRows }
                             \cup { <<r, q>> : r \in DataRows, q \in DataRows },
               final : BOOLEAN] :
        doc.final \/ doc.rows = <<>> \/ CsvLine(doc.rows[Len(doc.rows)]) # <<>> }

Fields ==
    { [kind |-> "bare",   text |-> <<>>,                         value |-> <<>>],
      [kind |-> "bare",   text |-> StrA,                         value |-> StrA],
      [kind |-> "bare",   text |-> <<Ch.a, Ch.space, Ch.b>>,     value |-> <<Ch.a, Ch.space, Ch.b>>],
      [kind |-> "bare",   text |-> <<Ch.a, Ch.quote, Ch.b>>,     value |-> <<Ch.a, Ch.quote, Ch.b>>],
      [kind |-> "bare",   text |-> <<Ch.a, Ch.quote>>,           value |-> <<Ch.a, Ch.quote>>],
      [kind |-> "quoted", text |-> <<Ch.quote, Ch.quote>>,       value |-> <<>>],
      [kind |-> "quoted", text |-> <<Ch.quote, Ch.a, Ch.quote>>, value |-> StrA],
      [kind |-> "quoted", text |-> <<Ch.quote, Ch.a, Ch.comma, Ch.b, Ch.quote>>,
                          value |-> <<Ch.a, Ch.comma, Ch.b>>],
      [kind |-> "quoted", text |-> <<Ch.quote, Ch.a, Ch.quote, Ch.quote, Ch.b, Ch.quote>>,
                          value |-> <<Ch.a, Ch.quote, Ch.b>>],
      [kind |-> "quoted", text |-> <<Ch.quote, Ch.quote, Ch.quote, Ch.quote>>,
                          value |-> <<Ch.quote>>],
      [kind |-> "quoted", text |-> <<Ch.quote, Ch.a, Ch.quote, Ch.quote, Ch.comma, Ch.b, Ch.quote>>,
                          value |-> <<Ch.a, Ch.quote, Ch.comma, Ch.b>>],
      [kind |-> "open",   text |-> <<Ch.quote>>,                 value |-> <<>>],
      [kind |-> "open",   text |-> <<Ch.quote, Ch.a>>,           value |-> <<>>],
      [kind |-> "open",   text |-> <<Ch.quote, Ch.a, Ch.quote, Ch.quote>>, value |-> <<>>],
      [kind |-> "open",   text |-> <<Ch.quote, Ch.a, Ch.comma>>, value |-> <<>>],
      [kind |-> "after",  text |-> <<Ch.quote, Ch.a, Ch.quote, Ch.b>>, value |-> <<>>],
      [kind |-> "after",  text |-> <<Ch.quote, Ch.a, Ch.quote, Ch.space>>, value |-> <<>>] }

(* A field left open swallows what follows it, so it only stands last.     *)
FieldDocs ==
    { [shape |-> "fields", fields |-> <<f>>] : f \in Fields }
    \cup { [shape |-> "fields", fields |-> <<f, g>>] :
             f \in { x \in Fields : x.kind # "open" }, g \in Fields }

ColumnNames == <<<<120>>, <<121>>>>

FieldsText(doc) ==
    CsvText(<< SubSeq(ColumnNames, 1, Len(doc.fields)),
               [i \in 1..Len(doc.fields) |-> doc.fields[i].text] >>, TRUE)

CsvDocs == TableDocs \cup FieldDocs

CsvRender(doc) ==
    IF doc.shape = "table" THEN CsvText(<<doc.header>> \o doc.rows, doc.final)
    ELSE FieldsText(doc)

(***************************************************************************)
(* The state machine: a client holding one handle.                         *)
(***************************************************************************)
NoNode   == [mType |-> "NONE"]
NoOrigin == [by |-> "none"]
NoOp     == [op |-> "none"]
NoCSV    == [mColumnHeaders |-> <<>>, mData |-> "none"]

(* The client's const_iterator variables, default-constructed, and a heap  *)
(* without a source.                                                       *)
Slots     == { "it", "other" }
NoCursors == [s \in Slots |-> [mImpl |-> NullSource]]
NoSources == [id \in {} |-> NullSource]

Init ==
    /\ pc = "empty"
    /\ json = NoNode
    /\ origin = NoOrigin
    /\ input = <<>>
    /\ last = NoOp
    /\ sources = NoSources
    /\ cursors = NoCursors
    /\ produced = <<>>
    /\ csv = NoCSV

Built(node, how) ==
    /\ pc = "empty"
    /\ pc' = "held"
    /\ json' = node
    /\ origin' = how
    /\ input' = <<>>
    /\ last' = [op |-> "construct"]
    /\ UNCHANGED <<sources, cursors, produced, csv>>

NewNull ==
    Built(JSON_null("nullptr"), [by |-> "JSON(nullptr_t)"])

NewBool ==
    \E value \in Bools : Built(JSON_bool(value), [by |-> "JSON(bool)", bool |-> value])

NewNumber ==
    \E value \in Doubles : Built(JSON_double(value), [by |-> "JSON(double)", num |-> value])

NewString ==
    \E value \in Strings \cup SpecialStrings :
        Built(JSON_string(value), [by |-> "JSON(string)", str |-> value])

NewArray ==
    \E elems \in SeqsUpTo(Children, MaxArrayLen) :
        Built(JSON_vector(elems), [by |-> "JSON(vector)", elems |-> elems])

NewObject ==
    \E elems \in MapsUpTo(Strings, Children, MaxMembers) :
        Built(JSON_map(elems), [by |-> "JSON(map)", map |-> elems])

Parse ==
    \E doc \in Docs :
        LET text   == Render(doc)
            result == JSON_parse(text)
        IN  /\ pc = "empty"
            /\ input' = text
            /\ origin' = [by |-> "parse", doc |-> doc]
            /\ last' = [op |-> "parse", out |-> result]
            /\ IF result.ok
               THEN pc' = "held" /\ json' = result.val
               ELSE pc' = "failed" /\ json' = json
            /\ UNCHANGED <<sources, cursors, produced, csv>>

AppliedOnFreshNode(record) ==
    /\ pc = "held"
    /\ last' = record
    /\ json' = IF record.out.ok THEN json ELSE JSON_null("nullptr")
    /\ UNCHANGED <<pc, origin, input, sources, cursors, produced, csv>>
Applied(record) ==
    /\ pc = "held"
    /\ last' = record
    /\ UNCHANGED <<pc, json, origin, input, sources, cursors, produced, csv>>

Type      == Applied([op |-> "type", out |-> JSON_type(json)])
AsNull    == Applied([op |-> "asNull", out |-> JSON_asNull(json)])
AsBoolean == Applied([op |-> "asBoolean", out |-> JSON_asBoolean(json)])
AsNumber  == Applied([op |-> "asNumber", out |-> JSON_asNumber(json)])
AsString  == Applied([op |-> "asString", out |-> JSON_asString(json)])
Size      == Applied([op |-> "size", out |-> JSON_size(json)])

At ==
    \E index \in Indices :
        Applied([op |-> "at", index |-> index, out |-> JSON_at(json, index)])

Get ==
    \E key \in Strings :
        Applied([op |-> "get", key |-> key, out |-> JSON_get(json, key)])

Contains ==
    \E key \in Strings :
        Applied([op |-> "contains", key |-> key, out |-> JSON_contains(json, key)])

AtKey ==
    /\ pc = "held"
    /\ \E key \in KeyValues :
           \E outcome \in JSON_atKey(json, key) :
               Applied([op |-> "atKey", keyval |-> key, out |-> outcome])

(* out << json: the text written.                                          *)
Serialize ==
    /\ pc = "held"
    /\ \E text \in JSON_print(json) :
           Applied([op |-> "print", out |-> [ok |-> TRUE, text |-> text]])

(* JSON::parse of the text that out << json wrote.                         *)
Reparse ==
    /\ pc = "held"
    /\ \E text \in JSON_print(json) :
           Applied([op |-> "reparse", text |-> text, out |-> JSON_parse(text)])

(* The handle goes out of scope (or the failed parse is left behind).      *)
Release ==
    /\ pc \in {"held", "failed"}
    /\ pc' = "empty"
    /\ json' = NoNode
    /\ origin' = NoOrigin
    /\ input' = <<>>
    /\ last' = NoOp
    /\ csv' = NoCSV
    /\ UNCHANGED <<sources, cursors, produced>>

Next ==
    \/ NewNull \/ NewBool \/ NewNumber \/ NewString \/ NewArray \/ NewObject
    \/ Parse
    \/ Type \/ AsNull \/ AsBoolean \/ AsNumber \/ AsString \/ Size
    \/ At \/ Get \/ Contains \/ AtKey
    \/ Serialize \/ Reparse
    \/ Release

Spec == Init /\ [][Next]_vars

(***************************************************************************)
(* Iterating: a client that holds a handle and two const_iterator          *)
(* variables.  It either works on the iterators one operation at a time,   *)
(* or runs   for (it = json.begin(); it != json.end(); ++it) use(it);      *)
(* An iterator is advanced and an array's iterator dereferenced only       *)
(* while it is not finished.                                               *)
(***************************************************************************)
IterChildren == { JSON_null("nullptr"), JSON_double(Double(1)), JSON_string(StrB) }

IterHandles ==
    { [node |-> JSON_null("nullptr"), how |-> [by |-> "JSON(nullptr_t)"]],
      [node |-> JSON_bool(TRUE), how |-> [by |-> "JSON(bool)", bool |-> TRUE]],
      [node |-> JSON_double(Double(1)), how |-> [by |-> "JSON(double)", num |-> Double(1)]],
      [node |-> JSON_string(StrA), how |-> [by |-> "JSON(string)", str |-> StrA]] }
    \cup { [node |-> JSON_vector(elems), how |-> [by |-> "JSON(vector)", elems |-> elems]] :
             elems \in SeqsUpTo(IterChildren, MaxArrayLen) }
    \cup { [node |-> JSON_map(elems), how |-> [by |-> "JSON(map)", map |-> elems]] :
             elems \in MapsUpTo(Strings, IterChildren, MaxMembers) }

IterInit ==
    /\ pc = "held"
    /\ \E h \in IterHandles : json = h.node /\ origin = h.how
    /\ input = <<>>
    /\ last = [op |-> "construct"]
    /\ sources = NoSources
    /\ cursors = NoCursors
    /\ produced = <<>>
    /\ csv = NoCSV

SourceIds == 1..Cardinality(Slots)

(* The sources some iterator of cs still points to: the others have been   *)
(* destroyed with their last shared_ptr.                                   *)
Live(cs, heap) ==
    [id \in ({ cs[s].mImpl : s \in Slots } \ {NullSource}) |-> heap[id]]

(* The identity of a source made while slot is being assigned to.          *)
FreshId(slot) ==
    CHOOSE id \in SourceIds :
        /\ id \notin { cursors[o].mImpl : o \in Slots \ {slot} }
        /\ \A lower \in 1..(id - 1) :
               lower \in { cursors[o].mImpl : o \in Slots \ {slot} }

(* slot = <an iterator on source>, with source new on the heap.            *)
AssignNew(slot, source) ==
    LET id == FreshId(slot)
        cs == [cursors EXCEPT ![slot] = [mImpl |-> id]]
    IN  /\ cursors' = cs
        /\ sources' = Live(cs, [i \in SourceIds |->
                                   IF i = id THEN source
                                   ELSE IF i \in DOMAIN sources THEN sources[i]
                                   ELSE NullSource])

(* slot = <an iterator that exists>.                                       *)
Assign(slot, iterator) ==
    LET cs == [cursors EXCEPT ![slot] = iterator]
    IN  cursors' = cs /\ sources' = Live(cs, sources)

Begin ==
    /\ pc = "held"
    /\ \E slot \in Slots, via \in {"begin", "cbegin"} :
         \E outcome \in (IF via = "begin" THEN JSON_begin(json) ELSE JSON_cbegin(json)) :
            /\ IF outcome.ok
               THEN /\ AssignNew(slot, outcome.source)
                    /\ last' = [op |-> via, slot |-> slot, out |-> [ok |-> TRUE]]
               ELSE /\ last' = [op |-> via, slot |-> slot, out |-> outcome]
                    /\ UNCHANGED <<cursors, sources>>
            /\ UNCHANGED <<pc, json, origin, input, produced, csv>>

End ==
    /\ pc = "held"
    /\ \E slot \in Slots, via \in {"end", "cend"} :
            /\ Assign(slot, IF via = "end" THEN JSON_end(json) ELSE JSON_cend(json))
            /\ last' = [op |-> via, slot |-> slot, out |-> [ok |-> TRUE]]
            /\ UNCHANGED <<pc, json, origin, input, produced, csv>>

Copy ==
    /\ pc = "held"
    /\ \E dst \in Slots, src \in Slots :
            /\ dst # src
            /\ Assign(dst, cursors[src])
            /\ last' = [op |-> "copy", slot |-> dst, from |-> src, out |-> [ok |-> TRUE]]
            /\ UNCHANGED <<pc, json, origin, input, produced, csv>>

CanAdvance(slot) ==
    /\ cursors[slot].mImpl # NullSource
    /\ ~JSONSource_finished(sources[cursors[slot].mImpl])

(* ++it *)
Advance ==
    /\ pc = "held"
    /\ \E slot \in Slots :
            /\ CanAdvance(slot)
            /\ sources' = [sources EXCEPT ![cursors[slot].mImpl] = JSONSource_advance(@)]
            /\ last' = [op |-> "advance", slot |-> slot, out |-> [ok |-> TRUE]]
            /\ UNCHANGED <<pc, json, origin, input, cursors, produced, csv>>

CanDereference(slot) ==
    /\ cursors[slot].mImpl # NullSource
    /\ \/ sources[cursors[slot].mImpl].class = "MapJSONSource"
       \/ ~JSONSource_finished(sources[cursors[slot].mImpl])

(* *it *)
Dereference ==
    /\ pc = "held"
    /\ \E slot \in Slots :
            /\ CanDereference(slot)
            /\ last' = [op |-> "deref", slot |-> slot,
                        out |-> [ok |-> TRUE,
                                 val |-> JSONSource_current(sources[cursors[slot].mImpl])]]
            /\ UNCHANGED <<pc, json, origin, input, sources, cursors, produced, csv>>

(* dst = src++ *)
PostIncrement ==
    /\ pc = "held"
    /\ \E dst \in Slots, src \in Slots :
            /\ dst # src
            /\ CanAdvance(src)
            /\ LET inc == const_iterator_postinc(cursors[src], sources)
                   cs  == [cursors EXCEPT ![dst] = inc.result]
               IN  cursors' = cs /\ sources' = Live(cs, inc.heap)
            /\ last' = [op |-> "postinc", slot |-> dst, from |-> src, out |-> [ok |-> TRUE]]
            /\ UNCHANGED <<pc, json, origin, input, produced, csv>>

(* lhs == rhs *)
Equal ==
    /\ pc = "held"
    /\ \E lhs \in Slots, rhs \in Slots :
            /\ last' = [op |-> "eq", lhs |-> lhs, rhs |-> rhs,
                        out |-> [ok |-> TRUE,
                                 bool |-> const_iterator_eq(cursors[lhs], cursors[rhs],
                                                            sources)]]
            /\ UNCHANGED <<pc, json, origin, input, sources, cursors, produced, csv>>

(* The loop.  it = json.begin() *)
EnterLoop ==
    /\ pc = "held" /\ cursors = NoCursors
    /\ \E outcome \in JSON_begin(json) :
            IF outcome.ok
            THEN /\ AssignNew("it", outcome.source)
                 /\ pc' = "test"
                 /\ last' = [op |-> "begin", slot |-> "it", out |-> [ok |-> TRUE]]
            ELSE /\ last' = [op |-> "begin", slot |-> "it", out |-> outcome]
                 /\ UNCHANGED <<pc, cursors, sources>>
    /\ UNCHANGED <<json, origin, input, produced, csv>>

(* it != json.end() *)
LoopTest ==
    /\ pc = "test"
    /\ LET more == const_iterator_neq(cursors["it"], JSON_end(json), sources)
       IN  /\ pc' = IF more THEN "body" ELSE "done"
           /\ last' = [op |-> "neq", lhs |-> "it", out |-> [ok |-> TRUE, bool |-> more]]
    /\ UNCHANGED <<json, origin, input, sources, cursors, produced, csv>>

(* use(it): the loop's body takes the Value at it *)
LoopBody ==
    /\ pc = "body"
    /\ pc' = "step"
    /\ LET value == JSONSource_current(sources[cursors["it"].mImpl])
       IN  /\ produced' = Append(produced, value)
           /\ last' = [op |-> "deref", slot |-> "it", out |-> [ok |-> TRUE, val |-> value]]
    /\ UNCHANGED <<json, origin, input, sources, cursors, csv>>

(* ++it *)
LoopStep ==
    /\ pc = "step"
    /\ pc' = "test"
    /\ sources' = [sources EXCEPT ![cursors["it"].mImpl] = JSONSource_advance(@)]
    /\ last' = [op |-> "advance", slot |-> "it", out |-> [ok |-> TRUE]]
    /\ UNCHANGED <<json, origin, input, cursors, produced, csv>>

IterNext ==
    \/ Begin \/ End \/ Copy \/ Advance \/ PostIncrement \/ Dereference \/ Equal
    \/ EnterLoop \/ LoopTest \/ LoopBody \/ LoopStep

IterSpec == IterInit /\ [][IterNext]_vars

(***************************************************************************)
(* Using one Value: a client that holds a constructed Value and applies    *)
(* accessors, writes it out, and runs the loop over it, in any order and   *)
(* any number of times.  Copies of the handle hold the same mImpl, so an   *)
(* operation through a copy is the operation on this node.                 *)
(***************************************************************************)
(* The for statement is left, at its end or by a break after the body: it  *)
(* goes out of scope and its source is destroyed.                          *)
LeaveLoop ==
    /\ pc \in {"step", "done"}
    /\ pc' = "held"
    /\ cursors' = NoCursors
    /\ sources' = NoSources
    /\ produced' = <<>>
    /\ last' = [op |-> "leave", out |-> [ok |-> TRUE]]
    /\ UNCHANGED <<json, origin, input, csv>>

UseNext ==
    \/ Type \/ AsNull \/ AsBoolean \/ AsNumber \/ AsString \/ Size
    \/ At \/ Get \/ Contains \/ AtKey
    \/ Serialize
    \/ EnterLoop \/ LoopTest \/ LoopBody \/ LoopStep \/ LeaveLoop

UseSpec == IterInit /\ [][UseNext]_vars

(***************************************************************************)
(* Reading a table: a client that builds a CSV from a source and asks it   *)
(* for its dimensions, its headers and its cells.                          *)
(***************************************************************************)
CsvIndices == -1..3
CsvNames   == { <<>>, StrA, StrB, <<120>>, <<121>> }

(* CSV csv(input) *)
CsvOpen ==
    \E doc \in CsvDocs :
        LET text   == CsvRender(doc)
            result == CSV_CSV(text)
        IN  /\ pc = "empty"
            /\ input' = text
            /\ origin' = [by |-> "CSV(istream)", doc |-> doc]
            /\ IF result.ok
               THEN pc' = "held" /\ csv' = result.csv /\ last' = [op |-> "CSV", out |-> [ok |-> TRUE]]
               ELSE pc' = "failed" /\ csv' = csv /\ last' = [op |-> "CSV", out |-> result]
            /\ UNCHANGED <<json, sources, cursors, produced>>

NumRows == Applied([op |-> "numRows", out |-> [ok |-> TRUE, int |-> CSV_numRows(csv)]])
NumCols == Applied([op |-> "numCols", out |-> [ok |-> TRUE, int |-> CSV_numCols(csv)]])
Headers == Applied([op |-> "headers", out |-> [ok |-> TRUE, names |-> CSV_headers(csv)]])

(* csv[row][col] *)
CellAt ==
    /\ pc = "held"
    /\ \E row \in CsvIndices, col \in CsvIndices :
           Applied([op |-> "cell", row |-> row, col |-> col,
                    out |-> With(CSV_at(csv, row), LAMBDA r :
                               IF r.ok THEN RowRef_at(csv, r.ref, col) ELSE r)])

(* csv[row][colHeader] *)
CellAtHeader ==
    /\ pc = "held"
    /\ \E row \in CsvIndices, colHeader \in CsvNames :
           Applied([op |-> "cellAtHeader", row |-> row, colHeader |-> colHeader,
                    out |-> With(CSV_at(csv, row), LAMBDA r :
                               IF r.ok THEN RowRef_atHeader(csv, r.ref, colHeader) ELSE r)])

CsvNext ==
    \/ CsvOpen
    \/ NumRows \/ NumCols \/ Headers \/ CellAt \/ CellAtHeader
    \/ Release

CsvSpec == Init /\ [][CsvNext]_vars

(***************************************************************************)
(* Properties.                                                             *)
(***************************************************************************)
Constructors ==
    { "JSON(nullptr_t)", "JSON(bool)", "JSON(double)", "JSON(string)",
      "JSON(vector)", "JSON(map)" }

VariantOf(by) ==
    CASE by = "JSON(nullptr_t)" -> "NULLPTR_T"
      [] by = "JSON(bool)"      -> "BOOLEAN"
      [] by = "JSON(double)"    -> "NUMBER"
      [] by = "JSON(string)"    -> "STRING"
      [] by = "JSON(vector)"    -> "ARRAY"
      [] by = "JSON(map)"       -> "OBJECT"

IsTypeMismatch(out) == ~out.ok /\ out.err = "TypeMismatch"
IsParseError(out)   == ~out.ok /\ out.err = "ParseError"

Constructed == pc = "held" /\ origin.by \in Constructors
Parsed      == last.op = "parse"

\* C1: a Value built by the constructor for variant X reports type X, its own
\* narrowing accessor returns the payload given at construction, and each of
\* asNull/asBoolean/asNumber/asString of another variant fails with TypeMismatch.
C1_ConstructedNarrowing ==
    Constructed =>
        /\ last.op = "type" => last.out.ok /\ last.out.type = VariantOf(origin.by)
        /\ last.op = "asNull" =>
              IF origin.by = "JSON(nullptr_t)"
              THEN last.out.ok /\ last.out.null = "nullptr"
              ELSE IsTypeMismatch(last.out)
        /\ last.op = "asBoolean" =>
              IF origin.by = "JSON(bool)"
              THEN last.out.ok /\ last.out.bool = origin.bool
              ELSE IsTypeMismatch(last.out)
        /\ last.op = "asNumber" =>
              IF origin.by = "JSON(double)"
              THEN last.out.ok /\ last.out.num = origin.num
              ELSE IsTypeMismatch(last.out)
        /\ last.op = "asString" =>
              IF origin.by = "JSON(string)"
              THEN last.out.ok /\ last.out.str = origin.str
              ELSE IsTypeMismatch(last.out)

C1_Witness ==
    /\ Constructed /\ origin.by = "JSON(vector)"
    /\ last.op = "asNull" /\ IsTypeMismatch(last.out)

\* C2: size() is the number of elements of an Array and the number of keys of
\* an Object, and fails with TypeMismatch on every Null, Boolean, Number, String.
C2_Size ==
    (pc = "held" /\ last.op = "size") =>
        /\ json.mType = "ARRAY" => last.out.ok /\ last.out.size = Len(json.mElems)
        /\ json.mType = "OBJECT" =>
              last.out.ok /\ last.out.size = Cardinality(DOMAIN json.mMap)
        /\ json.mType \in {"NULLPTR_T", "BOOLEAN", "NUMBER", "STRING"} =>
              IsTypeMismatch(last.out)
        /\ origin.by = "JSON(vector)" => last.out.ok /\ last.out.size = Len(origin.elems)
        /\ origin.by = "JSON(map)" =>
              last.out.ok /\ last.out.size = Cardinality(DOMAIN origin.map)

C2_Witness ==
    /\ pc = "held" /\ last.op = "size" /\ origin.by = "JSON(map)"
    /\ last.out.ok /\ last.out.size = 2

\* C3: value[i] on an Array is the i-th stored element for 0 <= i < size(),
\* fails with IndexOutOfRange carrying i and the size for i >= size(), and
\* fails with TypeMismatch on every non-Array Value, Objects included.
C3_IndexedAccess ==
    (pc = "held" /\ last.op = "at") =>
        IF json.mType = "ARRAY"
        THEN /\ origin.by = "JSON(vector)" => json.mElems = origin.elems
             /\ IF last.index < Len(json.mElems)
                THEN last.out.ok /\ last.out.val = json.mElems[last.index + 1]
                ELSE /\ ~last.out.ok /\ last.out.err = "IndexOutOfRange"
                     /\ last.out.index = last.index
                     /\ last.out.size = Len(json.mElems)
        ELSE IsTypeMismatch(last.out)

C3_Witness ==
    /\ pc = "held" /\ last.op = "at" /\ json.mType = "ARRAY"
    /\ Len(json.mElems) = 2 /\ last.index = 1 /\ last.out.ok

\* C4: on an Object value[key] is the mapped Value exactly when contains(key)
\* is true and fails with KeyNotFound naming the key exactly when it is false;
\* on every non-Object Value both value[key] and contains(key) fail with
\* TypeMismatch.
C4_KeyedAccess ==
    (pc = "held" /\ last.op \in {"get", "contains"}) =>
        IF json.mType = "OBJECT"
        THEN LET present == last.key \in DOMAIN json.mMap
             IN  /\ origin.by = "JSON(map)" => json.mMap = origin.map
                 /\ last.op = "contains" => last.out.ok /\ last.out.bool = present
                 /\ last.op = "get" =>
                       /\ JSON_contains(json, last.key).bool = last.out.ok
                       /\ IF present
                          THEN last.out.ok /\ last.out.val = json.mMap[last.key]
                          ELSE /\ ~last.out.ok /\ last.out.err = "KeyNotFound"
                               /\ last.out.key = last.key
        ELSE IsTypeMismatch(last.out)

C4_Witness ==
    /\ pc = "held" /\ last.op = "get" /\ json.mType = "OBJECT"
    /\ last.key = <<>> /\ last.out.ok

\* C5: value[k] with a Value k has the outcome of value[k.asString()] when k
\* is a String, the outcome of indexed access with k's number when k is a
\* Number, and fails with InvalidKeyType for a Null, Boolean, Array or Object
\* k, whatever the variant of value.
C5_GenericKey ==
    (pc = "held" /\ last.op = "atKey") =>
        LET k == last.keyval
        IN  /\ k.mType = "STRING" => last.out = JSON_get(json, k.mStr)
            /\ k.mType = "NUMBER" =>
                  \E i \in DoubleToSizeT(k.mNum) : last.out = JSON_at(json, i)
            /\ k.mType \in {"NULLPTR_T", "BOOLEAN", "ARRAY", "OBJECT"} =>
                  ~last.out.ok /\ last.out.err = "InvalidKeyType"

C5_Witness ==
    /\ pc = "held" /\ last.op = "atKey" /\ json.mType = "ARRAY"
    /\ last.keyval = JSON_double(Normalise(15, -1))
    /\ last.out.ok /\ last.out.val = json.mElems[2]

(* The parts of the document that was parsed.                              *)
IsComposite(doc) == doc.shape \in {"array", "object"}
Count(doc) == IF doc.shape = "array" THEN Len(doc.elems) ELSE Len(doc.members)
WellSeparated(doc) ==
    IsComposite(doc) /\ doc.sep = <<Ch.comma>> /\ doc.tail = <<>> /\ doc.inner = <<>>

ParsesAlone(text) == JSON_parse(text).ok
KeyOf(member) == JSON_parse(member.key).val.mStr
KeysOf(members) == { KeyOf(members[i]) : i \in 1..Len(members) }
RepeatedKeys(members) ==
    { KeyOf(members[i]) : i \in { n \in 1..Len(members) :
          \E o \in 1..Len(members) : o # n /\ KeyOf(members[o]) = KeyOf(members[n]) } }
Parts(doc) ==
    IF doc.shape = "array" THEN doc.elems
    ELSE [i \in 1..Len(doc.members) |-> doc.members[i].val]

C8_TrailingCommas ==
    Parsed =>
        LET doc == origin.doc
            out == last.out
        IN  /\ (IsComposite(doc) /\ Count(doc) >= 1 /\ doc.tail = <<Ch.comma>>) =>
                   IsParseError(out)
            /\ (IsComposite(doc) /\ Count(doc) >= 2 /\ doc.sep # <<Ch.comma>>) =>
                   IsParseError(out)
            /\ input \in {T_trailA, T_trailO} => IsParseError(out)

C8_Witness ==
    /\ Parsed /\ origin.doc.shape = "array" /\ origin.doc.tail = <<Ch.comma>>
    /\ origin.doc.sep = <<Ch.comma>> /\ Len(origin.doc.elems) = 2
    /\ \A i \in 1..2 : ParsesAlone(origin.doc.elems[i])
    /\ IsParseError(last.out)

\* C9: an empty array and an empty object whose brackets enclose zero or more
\* whitespace characters parse to an Array / Object of size 0.
C9_EmptyComposites ==
    (Parsed /\ IsComposite(origin.doc) /\ Count(origin.doc) = 0) =>
            /\ last.out.ok
            /\ JSON_type(last.out.val).type
                  = (IF origin.doc.shape = "array" THEN "ARRAY" ELSE "OBJECT")
            /\ JSON_size(last.out.val) = [ok |-> TRUE, size |-> 0]

(* The value a number text denotes, from its parts.                        *)
ValidInt(ip) == Len(ip) = 1 \/ Head(ip) # Ch.zero

DecimalOf(doc) ==
    LET mant == DigitsValue(doc.int \o doc.frac)
        expo == IF doc.exp = <<>> THEN 0
                ELSE IF Ch.minus \in { doc.mark[i] : i \in 1..Len(doc.mark) }
                THEN -DigitsValue(doc.exp) ELSE DigitsValue(doc.exp)
    IN  Normalise(IF doc.sign = <<>> THEN mant ELSE -mant, expo - Len(doc.frac))

\* C10: a number whose fraction is . and one or more digits and whose exponent
\* is e/E, an optional sign and one or more digits, whichever digits they are
\* (1.05, 0.001, 1e05 included), parses to the double it denotes.
C10_FractionAndExponentDigits ==
    (Parsed /\ origin.doc.shape = "number" /\ ValidInt(origin.doc.int)) =>
        last.out.ok /\ last.out.val = JSON_double(DecimalOf(origin.doc))

(* What a parse produced, taken out of the context the text was put in.    *)
Unwrapped(out, ctx) ==
    CASE ctx = "top"    -> out.val
      [] ctx = "array"  -> JSON_at(out.val, 0).val
      [] ctx = "object" -> JSON_get(out.val, StrA).val

LeadingZero(ip) == Len(ip) >= 2 /\ ip[1] = Ch.zero /\ isDigit(ip[2])
NoDigit(ip)     == ip = <<>> \/ ~isDigit(ip[1])
AllDigits(ip)   == ip # <<>> /\ \A i \in 1..Len(ip) : isDigit(ip[i])

\* C11: an integer part with a leading zero followed by another digit (01,
\* -012, [00]), or a - not followed by a digit, fails with ParseError at top
\* level, in an array and in an object; an optional - with a single 0 or with
\* a nonzero digit and further digits parses to that integer.
C11_IntegerPart ==
    (Parsed /\ origin.doc.shape = "int") =>
        LET doc == origin.doc
            out == last.out
        IN  /\ LeadingZero(doc.int) => IsParseError(out)
            /\ (doc.sign = <<Ch.minus>> /\ NoDigit(doc.int)) => IsParseError(out)
            /\ (AllDigits(doc.int) /\ ~LeadingZero(doc.int)) =>
                   /\ out.ok
                   /\ Unwrapped(out, doc.ctx)
                        = JSON_double(Double(IF doc.sign = <<>>
                                             THEN DigitsValue(doc.int)
                                             ELSE -DigitsValue(doc.int)))

C11_Witness ==
    /\ Parsed /\ origin.doc.shape = "int" /\ origin.doc.ctx = "array"
    /\ origin.doc.sign = <<Ch.minus>>
    /\ origin.doc.int = <<Digit(0), Digit(1), Digit(2)>>
    /\ IsParseError(last.out) /\ last.out.reason = "Expected , or ]"

\* C12: a string literal holding a raw code point below 0x20, or a backslash
\* followed by a character other than " \ / b n r t u, or ending before its
\* closing quote, fails with ParseError: parse returns no Value.
C12_StringErrors ==
    Parsed =>
        LET doc == origin.doc
            out == last.out
        IN  /\ (doc.shape = "string" /\ doc.item.kind = "control") =>
                   /\ IsParseError(out) /\ out.reason = "Illegal character"
                   /\ <<out.ch>> = doc.item.text
            /\ (doc.shape = "string" /\ doc.item.kind = "unknown") =>
                   /\ IsParseError(out) /\ out.reason = "Unknown escape sequence"
                   /\ out.ch = doc.item.text[2]
            /\ (doc.shape = "string" /\ ~doc.closed) => IsParseError(out)
            /\ input \in {<<Ch.quote, Ch.a>>, <<Ch.quote, Ch.a, Ch.backslash>>} =>
                   IsParseError(out)
            /\ IsParseError(out) => pc = "failed" /\ json = NoNode

C12_Witness ==
    /\ Parsed /\ origin.doc.shape = "string" /\ origin.doc.item.kind = "control"
    /\ origin.doc.pre = <<Ch.b>> /\ origin.doc.closed
    /\ IsParseError(last.out) /\ last.out.reason = "Illegal character"
    /\ pc = "failed"

\* C14: in a string literal each simple escape \" \\ \/ \b \n \r \t decodes to
\* its one character, \uXXXX of a non-surrogate unit to the code point XXXX
\* ("\u0041" is the string A), a high surrogate followed by a low surrogate
\* to the one combined code point, and reading goes on with the character
\* right after the escape.
C14_Escapes ==
    Parsed =>
        LET doc == origin.doc
            out == last.out
        IN  /\ ( /\ doc.shape = "string" /\ doc.closed
                 /\ doc.item.kind \in {"plain", "simple", "unicode", "pair"} ) =>
                   /\ out.ok
                   /\ JSON_type(out.val).type = "STRING"
                   /\ JSON_asString(out.val).str
                        = doc.pre \o toUTF8(doc.item.cp) \o doc.post
            /\ input = <<Ch.quote>> \o Hex4(48, 48, 52, 49) \o <<Ch.quote>> =>
                   out.ok /\ out.val = JSON_string(<<65>>)

C14_Witness ==
    /\ Parsed /\ origin.doc.shape = "string" /\ origin.doc.closed
    /\ origin.doc.item.kind = "pair"
    /\ origin.doc.pre = <<Ch.b>> /\ origin.doc.post = <<Ch.b>>
    /\ last.out.ok
    /\ last.out.val = JSON_string(<<Ch.b, 240, 159, 152, 128, Ch.b>>)

\* C13: once the top-level element is parsed, parse succeeds if and only if
\* only whitespace is left; any other leftover character makes it fail with
\* a ParseError naming that character (1 2, {}x, nulll).
C13_TrailingInput ==
    (Parsed /\ origin.doc.shape = "trail") =>
        LET doc == origin.doc
            out == last.out
        IN  IF doc.extra = <<>>
            THEN out.ok /\ out = JSON_parse(doc.elem)
            ELSE /\ IsParseError(out)
                 /\ out.reason = "Unexpected character found at end of stream"
                 /\ out.ch = doc.extra[1]

(* A tree without a Number that has a fractional part.                     *)
RECURSIVE IntegerValued(_)
IntegerValued(node) ==
    CASE node.mType = "NUMBER" -> node.mNum.e >= 0
      [] node.mType = "ARRAY"  ->
            \A i \in 1..Len(node.mElems) : IntegerValued(node.mElems[i])
      [] node.mType = "OBJECT" ->
            \A k \in DOMAIN node.mMap : IntegerValued(node.mMap[k])
      [] OTHER -> TRUE

\* C15: round trip: for a Value tree built by the constructors from Null,
\* Boolean, String, Array, Object and integer-valued Number payloads,
\* parse(serialize(v)) succeeds and is equal to v, node by node.
C15_RoundTrip ==
    (Constructed /\ last.op = "reparse" /\ IntegerValued(json)) =>
        last.out.ok /\ last.out.val = json

(* The text the escaping rules give for one code point, and for a string.  *)
EscapedAs(cp) ==
    CASE cp = 34 -> <<Ch.backslash, Ch.quote>>
      [] cp = 92 -> <<Ch.backslash, Ch.backslash>>
      [] cp = 47 -> <<Ch.backslash, Ch.slash>>
      [] cp = 8  -> <<Ch.backslash, Ch.b>>
      [] cp = 10 -> <<Ch.backslash, Ch.n>>
      [] cp = 13 -> <<Ch.backslash, Ch.r>>
      [] cp = 9  -> <<Ch.backslash, Ch.t>>
      [] cp \notin {34, 92, 47, 8, 10, 13, 9} /\ cp >= 32 /\ cp <= 126 -> <<cp>>
      [] OTHER -> utf16EscapeFor(cp)

RECURSIVE EscapedAll(_)
EscapedAll(cps) ==
    IF cps = <<>> THEN <<>> ELSE EscapedAs(Head(cps)) \o EscapedAll(Tail(cps))

Quoted(str) == <<Ch.quote>> \o EscapedAll(fromUTF8(str)) \o <<Ch.quote>>

\* C16: a String, and an object key, is written as a quoted text in which
\* " \ / backspace newline carriage-return tab are two-character escapes,
\* every other code point in 0x20..0x7E is itself, and every code point
\* below 0x20 or at/above 0x7F is a \uXXXX escape (a surrogate pair above
\* 0xFFFF).
C16_StringEscaping ==
    (pc = "held" /\ last.op = "print") =>
        /\ json.mType = "STRING" => last.out.text = Quoted(json.mStr)
        /\ (json.mType = "OBJECT" /\ Cardinality(DOMAIN json.mMap) = 1) =>
               \E k \in DOMAIN json.mMap :
                   SubSeq(last.out.text, 1, Len(Quoted(k)) + 2)
                      = <<Ch.lbrace>> \o Quoted(k) \o <<Ch.colon>>

(* The loop over json is under way or over; the Values it has yielded.     *)
InLoop   == pc \in {"test", "body", "step", "done"}
Tested   == pc \in {"body", "done"}
Yielded  == { produced[k] : k \in 1..Len(produced) }
Distinct == \A k, n \in 1..Len(produced) : k # n => produced[k] # produced[n]

\* C17: iterating an Array from begin() until the cursor equals end() yields
\* the elements in stored order, the k-th Value being value[k], each once,
\* size() of them in all; the cursor equals end() exactly when all have been
\* yielded, so at once for an empty Array.
C17_ArrayIteration ==
    (InLoop /\ json.mType = "ARRAY") =>
        /\ Len(produced) <= JSON_size(json).size
        /\ \A k \in 1..Len(produced) : JSON_at(json, k - 1) = [ok |-> TRUE, val |-> produced[k]]
        /\ Tested => (last.out.bool <=> Len(produced) < JSON_size(json).size)
        /\ pc = "done" => Len(produced) = JSON_size(json).size

C17_Witness ==
    /\ pc = "done" /\ json.mType = "ARRAY" /\ Len(json.mElems) = 2
    /\ json.mElems[1] # json.mElems[2]
    /\ produced = json.mElems

\* C18: iterating an Object from begin() until the cursor equals end() yields
\* size() Values, all Strings, pairwise distinct, which together are the
\* Object's keys (never the mapped values); at a position that is not the
\* end the current element is the key at that position; for an empty Object
\* begin() equals end() at once.
C18_ObjectIteration ==
    /\ (InLoop /\ json.mType = "OBJECT") =>
          /\ \A k \in 1..Len(produced) :
                /\ JSON_type(produced[k]).type = "STRING"
                /\ JSON_contains(json, JSON_asString(produced[k]).str).bool
          /\ Distinct
          /\ Tested => (last.out.bool <=> Len(produced) < JSON_size(json).size)
          /\ pc = "step" =>
                LET src == sources[cursors["it"].mImpl]
                IN  produced[Len(produced)] = JSON_string(src.mKeys[src.mCurr])
          /\ pc = "done" =>
                /\ Len(produced) = JSON_size(json).size
                /\ Yielded = { JSON_string(key) : key \in DOMAIN json.mMap }
    /\ (pc = "held" /\ last.op = "deref" /\ json.mType = "OBJECT") =>
          LET src == sources[cursors[last.slot].mImpl]
          IN  ~JSONSource_finished(src) =>
                 last.out.val = JSON_string(src.mKeys[src.mCurr])

C18_Witness ==
    /\ pc = "done" /\ json.mType = "OBJECT" /\ Cardinality(DOMAIN json.mMap) = 2
    /\ Len(produced) = 2
    /\ \E key \in DOMAIN json.mMap :
          JSON_type(json.mMap[key]).type = "STRING" /\ json.mMap[key] \notin Yielded

(* Where an iterator variable stands.                                      *)
IsEnd(slot)    == cursors[slot].mImpl = NullSource
Finished(slot) == IsEnd(slot) \/ JSONSource_finished(sources[cursors[slot].mImpl])

\* C19: two cursors that are both at the end of their sequence compare
\* equal, whether they are end() or came from begin() and ran out, on one
\* container or two; a cursor equals itself; a cursor that is not finished
\* never equals end().
C19_CursorEquality ==
    (pc = "held" /\ last.op = "eq") =>
        /\ (Finished(last.lhs) /\ Finished(last.rhs)) => last.out.bool
        /\ last.lhs = last.rhs => last.out.bool
        /\ (~Finished(last.lhs) /\ IsEnd(last.rhs)) => ~last.out.bool
        /\ (IsEnd(last.lhs) /\ ~Finished(last.rhs)) => ~last.out.bool

\* C20: begin() and cbegin() of a Null, Boolean, Number or String fail with
\* TypeMismatch; of an Array or Object they succeed.
C20_BeginTypeMismatch ==
    (last.op \in {"begin", "cbegin"}) =>
        IF json.mType \in {"ARRAY", "OBJECT"}
        THEN last.out.ok /\ ~IsEnd(last.slot)
        ELSE IsTypeMismatch(last.out) /\ last.out.target = "IterableJSON"
               /\ cursors = NoCursors

C20_Witness ==
    /\ last.op = "cbegin" /\ json.mType = "STRING"
    /\ IsTypeMismatch(last.out) /\ last.out.actual = "StringJSON"

(* The literal of doc with its item written as the escape of its code point. *)
EscapedForm(doc) ==
    StringText([doc EXCEPT !.item = [kind |-> "unicode", cp |-> doc.item.cp,
                                     text |-> utf16EscapeFor(doc.item.cp)]])

\* C21: a string literal holding a raw code point c >= 0x80 parses to the
\* same String as the literal in which c is written as its \uXXXX escape:
\* the whole code point is appended, not a truncation of it.
C21_RawCodePoints ==
    (Parsed /\ origin.doc.shape = "string" /\ origin.doc.closed
            /\ origin.doc.item.kind = "raw") =>
        /\ last.out.ok
        /\ last.out = JSON_parse(EscapedForm(origin.doc))
        /\ JSON_asString(last.out.val).str
              = origin.doc.pre \o toUTF8(origin.doc.item.cp) \o origin.doc.post

(* The node a constructor call makes.                                      *)
NodeOf(how) ==
    CASE how.by = "JSON(nullptr_t)" -> JSON_null("nullptr")
      [] how.by = "JSON(bool)"      -> JSON_bool(how.bool)
      [] how.by = "JSON(double)"    -> JSON_double(how.num)
      [] how.by = "JSON(string)"    -> JSON_string(how.str)
      [] how.by = "JSON(vector)"    -> JSON_vector(how.elems)
      [] how.by = "JSON(map)"       -> JSON_map(how.map)

\* C22: whatever accessors, indexed and keyed accesses, contains(), loops
\* over the Value and serializations have been performed, failed ones
\* included, the Value is the one that was constructed: same variant tag,
\* same payload, same size, same elements in the same order, same keys
\* mapped to the same values.
C22_Immutable ==
    /\ json = NodeOf(origin)
    /\ JSON_type(json).type = VariantOf(origin.by)
    /\ origin.by = "JSON(bool)" => JSON_asBoolean(json).bool = origin.bool
    /\ origin.by = "JSON(double)" => JSON_asNumber(json).num = origin.num
    /\ origin.by = "JSON(string)" => JSON_asString(json).str = origin.str
    /\ origin.by = "JSON(vector)" =>
          /\ JSON_size(json).size = Len(origin.elems)
          /\ \A i \in 1..Len(origin.elems) : JSON_at(json, i - 1).val = origin.elems[i]
    /\ origin.by = "JSON(map)" =>
          /\ JSON_size(json).size = Cardinality(DOMAIN origin.map)
          /\ \A key \in Strings :
                IF key \in DOMAIN origin.map
                THEN JSON_get(json, key).val = origin.map[key]
                ELSE ~JSON_contains(json, key).bool

C22_Witness ==
    /\ pc = "held" /\ last.op = "at" /\ ~last.out.ok
    /\ origin.by = "JSON(vector)" /\ Len(origin.elems) = 2
    /\ origin.elems[1] # origin.elems[2]
    /\ json.mElems = origin.elems

(* The position of the iterator in slot, in a state with the given cursors *)
(* and sources.                                                            *)
PositionOf(slot, cs, heap) == heap[cs[slot].mImpl].mCurr
SharesWith(slot, other) ==
    cursors[slot].mImpl # NullSource /\ cursors[slot].mImpl = cursors[other].mImpl

\* C23: the copies of a cursor share one position.  Advancing one copy
\* moves every copy on by one; after old = it++ the cursor old holds the
\* source of it, stands at the new position as it does, equals it, and
\* gives the next element of an Array, not the one it stood on before.
C23_SharedPosition ==
    [][ /\ (last'.op = "advance" /\ pc' = "held") =>
              \A copy \in Slots :
                  SharesWith(copy, last'.slot) =>
                      /\ cursors'[copy] = cursors[copy]
                      /\ PositionOf(copy, cursors', sources')
                            = PositionOf(copy, cursors, sources) + 1
        /\ last'.op = "postinc" =>
              LET it  == last'.from
                  old == last'.slot
                  was == PositionOf(it, cursors, sources)
              IN  /\ cursors'[old].mImpl = cursors[it].mImpl
                  /\ cursors'[it] = cursors[it]
                  /\ PositionOf(it, cursors', sources') = was + 1
                  /\ PositionOf(old, cursors', sources') = was + 1
                  /\ const_iterator_eq(cursors'[old], cursors'[it], sources')
                  /\ (json.mType = "ARRAY" /\ was < Len(json.mElems)) =>
                        JSONSource_current(sources'[cursors'[old].mImpl])
                          = json.mElems[was + 1]
      ]_vars

C23_Witness ==
    /\ last.op = "postinc" /\ last.slot = "other" /\ last.from = "it"
    /\ json.mType = "ARRAY" /\ Len(json.mElems) = 2 /\ json.mElems[1] # json.mElems[2]
    /\ cursors["other"] = cursors["it"] /\ cursors["it"].mImpl # NullSource
    /\ PositionOf("other", cursors, sources) = 2
    /\ JSONSource_current(sources[cursors["other"].mImpl]) = json.mElems[2]

(* What a table's source holds: its lines as written, their field counts.  *)
Opened       == last.op = "CSV"
LinesOf(doc) == <<doc.header>> \o doc.rows
Repeats(row) == \E i, j \in 1..Len(row) : i # j /\ row[i] = row[j]
ColumnsOf(row) == IF row = <<>> THEN 1 ELSE Len(row)
Malformed(doc) ==
    \/ Repeats(doc.header)
    \/ \E i \in 1..Len(LinesOf(doc)) : CsvLine(LinesOf(doc)[i]) = <<>>
    \/ \E i \in 1..Len(doc.rows) : ColumnsOf(doc.rows[i]) # ColumnsOf(doc.header)

\* C24: building a CSV fails when the header row repeats a column name, when
\* a line is empty, or when a data line has not as many fields as the header;
\* of a CSV that was built the headers are pairwise distinct, numCols() is
\* their number, and each of the numRows() data rows has numCols() entries.
C24_CsvShape ==
    /\ (Opened /\ origin.doc.shape = "table" /\ Malformed(origin.doc)) =>
          /\ ~last.out.ok /\ last.out.err = "error"
          /\ pc = "failed" /\ csv = NoCSV
    /\ (Opened /\ origin.doc.shape = "table" /\ ~Malformed(origin.doc)) =>
          /\ last.out.ok
          /\ CSV_headers(csv) = origin.doc.header
          /\ CSV_numRows(csv) = Len(origin.doc.rows)
    /\ (pc = "held" /\ origin.by = "CSV(istream)") =>
          /\ ~Repeats(CSV_headers(csv))
          /\ CSV_numCols(csv) = Len(CSV_headers(csv))
          /\ DOMAIN csv.mData.elems = 1..CSV_numRows(csv)
          /\ \A row \in 0..(CSV_numRows(csv) - 1) :
                /\ DOMAIN csv.mData.elems[row + 1] = 1..CSV_numCols(csv)
                /\ \A col \in 0..(CSV_numCols(csv) - 1) :
                      RowRef_at(csv, CSV_at(csv, row).ref, col).ok
                /\ ~RowRef_at(csv, CSV_at(csv, row).ref, CSV_numCols(csv)).ok
          /\ ~CSV_at(csv, CSV_numRows(csv)).ok
          /\ last.op = "numCols" => last.out.int = Len(CSV_headers(csv))
          /\ (last.op = "cell" /\ last.out.ok) =>
                last.row < CSV_numRows(csv) /\ last.col < CSV_numCols(csv)

C24_Witness ==
    /\ pc = "held" /\ origin.by = "CSV(istream)" /\ origin.doc.shape = "table"
    /\ last.op = "numCols" /\ last.out.int = 2
    /\ CSV_numRows(csv) = 2 /\ CSV_headers(csv) = <<StrA, StrB>>
    /\ csv.mData.elems[2] = <<T_two, T_one>>

(* The fields of a line under the tokenizer, and the first field, if any,  *)
(* that is not well formed.                                                *)
Broken(fields)  == { i \in 1..Len(fields) : fields[i].kind \in {"open", "after"} }
FirstBroken(fields) == CHOOSE i \in Broken(fields) : \A j \in Broken(fields) : i <= j
ValuesOf(fields) == [i \in 1..Len(fields) |-> fields[i].value]

\* C25: a field that does not start with a quote runs to the next comma or
\* the end of the line and may be empty; a field that starts with a quote
\* runs to its closing quote, the one followed by a comma or the end of the
\* line, a doubled quote inside standing for one quote and a comma inside
\* for itself; a line that ends before the closing quote, or has another
\* character right after it, is a fatal error.
C25_Tokenizing ==
    (Opened /\ origin.doc.shape = "fields") =>
        LET fields == origin.doc.fields
            line   == CsvLine([i \in 1..Len(fields) |-> fields[i].text])
        IN  IF line = <<>> THEN ~last.out.ok
            ELSE IF Broken(fields) = {}
            THEN /\ last.out.ok
                 /\ tokenize(line) = [ok |-> TRUE, tokens |-> ValuesOf(fields)]
                 /\ CSV_numRows(csv) = 1
                 /\ csv.mData.elems[1] = ValuesOf(fields)
            ELSE /\ ~last.out.ok /\ last.out.err = "error"
                 /\ last.out = tokenize(line)
                 /\ last.out.reason =
                       IF fields[FirstBroken(fields)].kind = "open"
                       THEN "Unterminated string literal."
                       ELSE "Unexpected character found after quote."

C25_Witness ==
    /\ Opened /\ origin.doc.shape = "fields" /\ last.out.ok
    /\ Len(origin.doc.fields) = 2
    /\ csv.mData.elems[1] = << <<Ch.a, Ch.quote, Ch.comma, Ch.b>>, <<>> >>
    /\ origin.doc.fields[2].kind = "quoted"

====
